---- MODULE Spec2Model ----
(***************************************************************************)
(* Store-and-forward telemetry edge agent (cpp_edge/logger.cpp).           *)
(*                                                                         *)
(* The model follows the logger's main thread statement by statement at    *)
(* the granularity of its blocking calls (one step per upload, per buffer  *)
(* store, per drained row), together with the detached thread that flips   *)
(* is_online.  Real-valued quantities are fixed-point integers in          *)
(* thousandths (Scale), the steady clock is in milliseconds.               *)
(***************************************************************************)
EXTENDS Integers, Sequences, FiniteSets, TLC

(***************************************************************************)
(* Bounds of the model.                                                    *)
(***************************************************************************)
MaxLines == 3          \* lines read from the replayed log file, over all runs
MaxRuns == 2           \* process starts in CrashSpec (1 = no restart)
MaxToggles == 2        \* lines typed on stdin, over all runs
MaxFaults == 1         \* failed transport and SQLite calls, over all runs
MaxFeed == 3           \* calls of shouldTransmitPacket in PredictorSpec

(***************************************************************************)
(* Fixed-point representation of float.                                    *)
(***************************************************************************)
Scale == 1000

\* PredictorConfig
alpha == 300
speed_threshold == 2000
power_threshold == 5000
battery_threshold == 500
heading_threshold == 5000
resync_interval == 30

\* main: std::this_thread::sleep_for(std::chrono::milliseconds(300))
SamplePause == 300

\* flushBuffer: std::this_thread::sleep_for(std::chrono::milliseconds(100))
DrainPause == 100

(***************************************************************************)
(* Inputs: fields of the parsed samples and advances of the steady clock   *)
(* between two calls of shouldTransmitPacket.                              *)
(***************************************************************************)
SpeedVals == {65000}
PowerVals == {10000}
BatteryVals == {80}
HeadingVals == {90}
OdometerVals == {1200}
ClockSteps == {SamplePause, resync_interval * 1000}

\* Samples for the predictor on its own (PredictorSpec): a parked car, and
\* three readings that lie at, above and below the tolerances of one another
PredictorSamples ==
    {[speed |-> 0, power |-> 0, battery |-> 0, heading |-> 0],
     [speed |-> 10000, power |-> 10000, battery |-> 82, heading |-> 90],
     [speed |-> 12000, power |-> 15000, battery |-> 77, heading |-> 95],
     [speed |-> 13000, power |-> 16000, battery |-> 81, heading |-> 96]}
PredictorClockSteps == {SamplePause, 15000, resync_interval * 1000}

(***************************************************************************)
(* State                                                                   *)
(***************************************************************************)
VARIABLES
    pc,             \* position of the main thread
    exit_code,      \* return value of main, -1 while running
    run,            \* number of process starts so far
    is_online,      \* std::atomic<bool> is_online
    was_offline,    \* main: bool was_offline
    line_count,     \* main: int line_count
    lineno,         \* lines of the log file consumed by getline
    source_ts,      \* timestamp of the last line read
    steady_clock,   \* std::chrono::steady_clock::now(), in ms
    g_predictor,    \* TelemetryPredictor g_predictor
    cur,            \* locals of the loop body for the sample in hand
    db,             \* rows of telemetry_buffer
    db_seq,         \* AUTOINCREMENT counter of telemetry_buffer
    flush_ret,      \* where flushBuffer returns to: "loop" or "final"
    stmt_rows,      \* flushBuffer: result rows of the SELECT
    stmt_pos,       \* flushBuffer: next row of the SELECT
    count,          \* flushBuffer: int count
    failed,         \* flushBuffer: int failed
    \* history, not program state
    sample_no,      \* samples handed to the predictor so far, over all runs
    received,       \* records the endpoint accepted, in arrival order
    treated_sent,   \* samples whose upload call returned true
    stored,         \* samples whose storeToBuffer returned true
    reported,       \* samples whose storeToBuffer logged [BUFFER ERROR]
    attempts,       \* upload calls of the current or last drain pass
    drained_since_store,   \* flushBuffer returned since the last stored row
    drain_failed_pending,  \* the last flushBuffer call had a failed upload
    flushed_this_iter,     \* flushBuffer returned in this loop iteration
    transport_phase,       \* "failing", "ok" (failures, then successes), "other"
    clean_since,           \* rows seen by an Online sample, no call failed since
    removed,               \* samples whose row a DELETE took out of the table
    survivors,             \* samples with a row in the table at the last start
    live_called,           \* samples whose live upload was called
    iteration,             \* the loop iteration in progress: what it found, its drain
    pause_log,             \* sleeps of the current or last drain pass
    \* the predictor on its own (PredictorSpec)
    feed,                  \* calls of shouldTransmitPacket on g_predictor
    twin_predictor,        \* a second TelemetryPredictor, fed the same calls
    twin_decisions,        \* what the second instance returned, call by call
    \* the toggle thread taken in two steps (SplitToggleSpec)
    toggle_pc,             \* where connectionToggleThread stands in its loop
    toggle_tmp,            \* the value of is_online it has loaded
    reads,                 \* lines read from the log file so far
    toggles,               \* toggle events so far
    faults                 \* failed transport and SQLite calls so far

prog_vars == <<pc, exit_code, run, is_online, was_offline, line_count, lineno,
               source_ts, steady_clock, g_predictor, cur, db, db_seq,
               flush_ret, stmt_rows, stmt_pos, count, failed>>
hist_vars == <<sample_no, received, treated_sent, stored, reported, attempts,
               drained_since_store, drain_failed_pending, flushed_this_iter,
               transport_phase, clean_since, removed, survivors,
               live_called, iteration, pause_log>>
env_vars == <<reads, toggles, faults>>
pred_vars == <<feed, twin_predictor, twin_decisions>>
toggle_vars == <<toggle_pc, toggle_tmp>>
vars == <<prog_vars, hist_vars, env_vars, pred_vars, toggle_vars>>

Abs(x) == IF x < 0 THEN -x ELSE x

(***************************************************************************)
(* TelemetryPredictor                                                      *)
(***************************************************************************)
\* TelemetryPredictor::TelemetryPredictor, constructed when the clock reads t
NewPredictor(t) ==
    [predicted_speed |-> 0, predicted_power |-> 0,
     predicted_battery |-> 0, predicted_heading |-> 0,
     has_speed |-> FALSE, has_power |-> FALSE,
     has_battery |-> FALSE, has_heading |-> FALSE,
     last_resync_time |-> t,
     total_readings |-> 0, transmitted_readings |-> 0, skipped_readings |-> 0]

exponentialSmooth(actual, last_predicted) ==
    (alpha * actual + (Scale - alpha) * last_predicted) \div Scale

\* A comparison that also fires at the tolerance
shouldTransmitAtTolerance(actual, predicted, threshold, has_prediction) ==
    IF ~has_prediction THEN TRUE
    ELSE Abs(actual - predicted) >= threshold

\* A comparison that does not look at has_prediction
shouldTransmitNoFirst(actual, predicted, threshold, has_prediction) ==
    Abs(actual - predicted) > threshold

shouldTransmit(actual, predicted, threshold, has_prediction) ==
    IF ~has_prediction THEN TRUE
    ELSE Abs(actual - predicted) > threshold

\* An elapsed time cast to minutes
ElapsedMinutes(p, current_time) == (current_time - p.last_resync_time) \div 60000

\* An elapsed time taken from the clock as the process finds it, not from
\* the reading handed in
ElapsedSecondsByGlobalClock(p, current_time) ==
    (steady_clock - p.last_resync_time) \div 1000

\* elapsed = duration_cast<seconds>(current_time - last_resync_time)
ElapsedSeconds(p, current_time) == (current_time - p.last_resync_time) \div 1000

\* A resync branch that marks the decision is_resync and leaves the four
\* flags to the thresholds
DecideResyncByThreshold(p, speed, power, battery, heading, current_time) ==
    [speed |-> shouldTransmit(speed, p.predicted_speed, speed_threshold, p.has_speed),
     power |-> shouldTransmit(power, p.predicted_power, power_threshold, p.has_power),
     battery |-> shouldTransmit(battery, p.predicted_battery, battery_threshold, p.has_battery),
     heading |-> shouldTransmit(heading, p.predicted_heading, heading_threshold, p.has_heading),
     is_resync |-> ElapsedSeconds(p, current_time) >= resync_interval]

\* The TransmitDecisions computed by shouldTransmitPacket
Decide(p, speed, power, battery, heading, current_time) ==
    IF ElapsedSeconds(p, current_time) >= resync_interval
    THEN [speed |-> TRUE, power |-> TRUE, battery |-> TRUE, heading |-> TRUE,
          is_resync |-> TRUE]
    ELSE [speed |-> shouldTransmit(speed, p.predicted_speed, speed_threshold, p.has_speed),
          power |-> shouldTransmit(power, p.predicted_power, power_threshold, p.has_power),
          battery |-> shouldTransmit(battery, p.predicted_battery, battery_threshold, p.has_battery),
          heading |-> shouldTransmit(heading, p.predicted_heading, heading_threshold, p.has_heading),
          is_resync |-> FALSE]

\* A state update that counts one transmitted reading per flag that is set
AdvanceCountsFields(p, speed, power, battery, heading, current_time) ==
    LET d == Decide(p, speed, power, battery, heading, current_time)
        flags == (IF d.speed THEN 1 ELSE 0) + (IF d.power THEN 1 ELSE 0)
                 + (IF d.battery THEN 1 ELSE 0) + (IF d.heading THEN 1 ELSE 0)
    IN [predicted_speed |->
            exponentialSmooth(speed, IF p.has_speed THEN p.predicted_speed ELSE speed),
        predicted_power |->
            exponentialSmooth(power, IF p.has_power THEN p.predicted_power ELSE power),
        predicted_battery |->
            exponentialSmooth(battery, IF p.has_battery THEN p.predicted_battery ELSE battery),
        predicted_heading |->
            exponentialSmooth(heading, IF p.has_heading THEN p.predicted_heading ELSE heading),
        has_speed |-> TRUE, has_power |-> TRUE,
        has_battery |-> TRUE, has_heading |-> TRUE,
        last_resync_time |-> IF d.is_resync THEN current_time ELSE p.last_resync_time,
        total_readings |-> p.total_readings + 1,
        transmitted_readings |-> p.transmitted_readings + flags,
        skipped_readings |-> p.skipped_readings + (IF flags = 0 THEN 1 ELSE 0)]

\* The predictor after shouldTransmitPacket
Advance(p, speed, power, battery, heading, current_time) ==
    LET d == Decide(p, speed, power, battery, heading, current_time)
        any == d.speed \/ d.power \/ d.battery \/ d.heading
    IN [predicted_speed |->
            exponentialSmooth(speed, IF p.has_speed THEN p.predicted_speed ELSE speed),
        predicted_power |->
            exponentialSmooth(power, IF p.has_power THEN p.predicted_power ELSE power),
        predicted_battery |->
            exponentialSmooth(battery, IF p.has_battery THEN p.predicted_battery ELSE battery),
        predicted_heading |->
            exponentialSmooth(heading, IF p.has_heading THEN p.predicted_heading ELSE heading),
        has_speed |-> TRUE, has_power |-> TRUE,
        has_battery |-> TRUE, has_heading |-> TRUE,
        last_resync_time |-> IF d.is_resync THEN current_time ELSE p.last_resync_time,
        total_readings |-> p.total_readings + 1,
        transmitted_readings |-> p.transmitted_readings + (IF any THEN 1 ELSE 0),
        skipped_readings |-> p.skipped_readings + (IF any THEN 0 ELSE 1)]

\* TelemetryPredictor::reset, called when the clock reads t (main never
\* calls it)
reset(p, t) ==
    [p EXCEPT !.has_speed = FALSE, !.has_power = FALSE,
              !.has_battery = FALSE, !.has_heading = FALSE,
              !.total_readings = 0, !.transmitted_readings = 0,
              !.skipped_readings = 0, !.last_resync_time = t]

\* A shouldTransmitPacket that updates the predictions first and computes
\* the flags from the updated values
shouldTransmitPacketUpdatesFirst(p, speed, power, battery, heading, current_time) ==
    LET q == Advance(p, speed, power, battery, heading, current_time)
    IN [decisions |->
            Decide([q EXCEPT !.last_resync_time = p.last_resync_time],
                   speed, power, battery, heading, current_time),
        predictor |-> q]

\* shouldTransmitPacket: the decisions it returns and the state it leaves
shouldTransmitPacket(p, speed, power, battery, heading, current_time) ==
    [decisions |-> Decide(p, speed, power, battery, heading, current_time),
     predictor |-> Advance(p, speed, power, battery, heading, current_time)]

(***************************************************************************)
(* tesla::CompressedVehicleData and its wire encoding.  A message is a     *)
(* record with one presence bit per optional field; its encoding is the    *)
(* sequence of <<field number, value>> pairs of the fields that are set.   *)
(***************************************************************************)
\* A compressed record whose odometer is set only on a resync
CompressedRecordOdometerOnResync(s, d) ==
    [timestamp |-> s.timestamp, odometer |-> IF d.is_resync THEN s.odometer ELSE 0,
     is_resync |-> d.is_resync,
     has_vehicle_speed |-> d.speed, vehicle_speed |-> IF d.speed THEN s.speed ELSE 0,
     has_power_kw |-> d.power, power_kw |-> IF d.power THEN s.power ELSE 0,
     has_battery_level |-> d.battery, battery_level |-> IF d.battery THEN s.battery ELSE 0,
     has_heading |-> d.heading, heading |-> IF d.heading THEN s.heading ELSE 0]

\* A compressed record that carries the speed whatever the decision
CompressedRecordAlwaysSpeed(s, d) ==
    [timestamp |-> s.timestamp, odometer |-> s.odometer, is_resync |-> d.is_resync,
     has_vehicle_speed |-> TRUE, vehicle_speed |-> s.speed,
     has_power_kw |-> d.power, power_kw |-> IF d.power THEN s.power ELSE 0,
     has_battery_level |-> d.battery, battery_level |-> IF d.battery THEN s.battery ELSE 0,
     has_heading |-> d.heading, heading |-> IF d.heading THEN s.heading ELSE 0]

\* main: compressed_data, built from the sample and the decisions
CompressedRecord(s, d) ==
    [timestamp |-> s.timestamp, odometer |-> s.odometer, is_resync |-> d.is_resync,
     has_vehicle_speed |-> d.speed, vehicle_speed |-> IF d.speed THEN s.speed ELSE 0,
     has_power_kw |-> d.power, power_kw |-> IF d.power THEN s.power ELSE 0,
     has_battery_level |-> d.battery, battery_level |-> IF d.battery THEN s.battery ELSE 0,
     has_heading |-> d.heading, heading |-> IF d.heading THEN s.heading ELSE 0]

\* main: complete_data, built from the sample alone
CompleteRecord(s) ==
    [timestamp |-> s.timestamp, odometer |-> s.odometer, is_resync |-> TRUE,
     has_vehicle_speed |-> TRUE, vehicle_speed |-> s.speed,
     has_power_kw |-> TRUE, power_kw |-> s.power,
     has_battery_level |-> TRUE, battery_level |-> s.battery,
     has_heading |-> TRUE, heading |-> s.heading]

SerializeToString(m) ==
    <<<<1, m.timestamp>>, <<2, m.odometer>>, <<3, IF m.is_resync THEN 1 ELSE 0>>>>
    \o (IF m.has_vehicle_speed THEN <<<<4, m.vehicle_speed>>>> ELSE <<>>)
    \o (IF m.has_power_kw THEN <<<<5, m.power_kw>>>> ELSE <<>>)
    \o (IF m.has_battery_level THEN <<<<6, m.battery_level>>>> ELSE <<>>)
    \o (IF m.has_heading THEN <<<<7, m.heading>>>> ELSE <<>>)

HasField(bytes, f) == \E i \in 1..Len(bytes) : bytes[i][1] = f
FieldOf(bytes, f) ==
    IF HasField(bytes, f)
    THEN bytes[CHOOSE i \in 1..Len(bytes) : bytes[i][1] = f][2]
    ELSE 0

\* ParseFromArray succeeds when the required fields are there
Parseable(bytes) == HasField(bytes, 1) /\ HasField(bytes, 2) /\ HasField(bytes, 3)

ParseFromArray(bytes) ==
    [timestamp |-> FieldOf(bytes, 1), odometer |-> FieldOf(bytes, 2),
     is_resync |-> FieldOf(bytes, 3) = 1,
     has_vehicle_speed |-> HasField(bytes, 4), vehicle_speed |-> FieldOf(bytes, 4),
     has_power_kw |-> HasField(bytes, 5), power_kw |-> FieldOf(bytes, 5),
     has_battery_level |-> HasField(bytes, 6), battery_level |-> FieldOf(bytes, 6),
     has_heading |-> HasField(bytes, 7), heading |-> FieldOf(bytes, 7)]

\* A full record: is_resync and the four optional fields
IsFull(m) ==
    /\ m.is_resync
    /\ m.has_vehicle_speed /\ m.has_power_kw /\ m.has_battery_level /\ m.has_heading

(***************************************************************************)
(* Transport: what one curl_easy_perform call can end with.                *)
(***************************************************************************)
TransportOutcomes == {"HTTP_2xx", "HTTP_4xx", "HTTP_5xx", "TIMEOUT"}

\* The CURLcode of a transfer: CURLE_OK whenever an HTTP response came back
\* (CURLOPT_FAILONERROR is not set), an error code when none did.
curl_easy_perform(outcome) ==
    IF outcome \in {"HTTP_2xx", "HTTP_4xx", "HTTP_5xx"} THEN "CURLE_OK"
    ELSE "CURLE_OPERATION_TIMEDOUT"

\* The return value of uploadCompressedToServer
uploadCompressedToServer(outcome) == curl_easy_perform(outcome) = "CURLE_OK"

\* The ingest endpoint took the record: it answered with a success status
Accepted(outcome) == outcome = "HTTP_2xx"

(***************************************************************************)
(* The SQLite buffer: table telemetry_buffer as the sequence of its rows   *)
(* in id order.  Field n of a row is not a column: it names the sample     *)
(* the payload was built from, for the properties below.                   *)
(***************************************************************************)
\* INSERT INTO telemetry_buffer (timestamp, protobuf_data): the table after
\* storeToBuffer; ok is the outcome of prepare and step
storeToBuffer(rows, seq, timestamp, protobuf_data, n, ok) ==
    IF ok
    THEN Append(rows, [id |-> seq + 1, timestamp |-> timestamp,
                       protobuf_data |-> protobuf_data, n |-> n])
    ELSE rows

\* DELETE FROM telemetry_buffer WHERE id = ...
DeleteRow(rows, id) == SelectSeq(rows, LAMBDA r : r.id # id)

Ids(rows) == {rows[i].id : i \in 1..Len(rows)}
Ns(rows) == {rows[i].n : i \in 1..Len(rows)}

\* SELECT ... ORDER BY timestamp: every ordering of the rows by
\* non-decreasing timestamp (rows of equal timestamp come in any order)
OrderByTimestamp(rows) ==
    LET k == Len(rows)
        perms == {f \in [1..k -> 1..k] : \A i, j \in 1..k : i # j => f[i] # f[j]}
        sorted == {f \in perms :
                     \A i \in 1..k - 1 : rows[f[i]].timestamp <= rows[f[i + 1]].timestamp}
    IN {[i \in 1..k |-> rows[f[i]]] : f \in sorted}

NoSample == [n |-> 0]

\* History of a loop iteration: whether it is due to drain (Online observed
\* with was_offline set), the samples buffered when it began, what became of
\* the SELECT of its drain pass, the toggle events before it
NoIteration == [due |-> FALSE, rows |-> {}, select |-> "none", toggles |-> 0]

Samples(last_ts) ==
    [timestamp : {last_ts, last_ts + 1}, speed : SpeedVals, power : PowerVals,
     battery : BatteryVals, heading : HeadingVals, odometer : OdometerVals]

Init ==
    /\ pc = "start"
    /\ exit_code = -1
    /\ run = 1
    /\ is_online = TRUE
    /\ was_offline = FALSE
    /\ line_count = 0
    /\ lineno = 0
    /\ source_ts = 1
    /\ steady_clock = 0
    /\ g_predictor = NewPredictor(0)
    /\ cur = NoSample
    /\ db = <<>>
    /\ db_seq = 0
    /\ flush_ret = "loop"
    /\ stmt_rows = <<>>
    /\ stmt_pos = 1
    /\ count = 0
    /\ failed = 0
    /\ sample_no = 0
    /\ received = <<>>
    /\ treated_sent = {}
    /\ stored = {}
    /\ reported = {}
    /\ attempts = <<>>
    /\ drained_since_store = TRUE
    /\ drain_failed_pending = FALSE
    /\ flushed_this_iter = FALSE
    /\ transport_phase = "failing"
    /\ clean_since = {}
    /\ removed = {}
    /\ survivors = {}
    /\ live_called = {}
    /\ iteration = NoIteration
    /\ pause_log = <<>>
    /\ feed = <<>>
    /\ twin_predictor = NewPredictor(0)
    /\ twin_decisions = <<>>
    /\ toggle_pc = "getline"
    /\ toggle_tmp = TRUE
    /\ reads = 0
    /\ toggles = 0
    /\ faults = 0

(***************************************************************************)
(* History of the transport calls.                                         *)
(***************************************************************************)
\* "failing" while every call so far ended in a curl error, "ok" once calls
\* answered 2xx and none went wrong after the first of them, else "other"
PhaseAfter(ph, outcome) ==
    IF outcome = "HTTP_2xx" THEN (IF ph = "other" THEN "other" ELSE "ok")
    ELSE IF ~uploadCompressedToServer(outcome) /\ ph = "failing" THEN "failing"
    ELSE "other"

\* A call of the transport or of SQLite went wrong (bad) or not
Fault(bad) ==
    /\ bad => faults < MaxFaults
    /\ faults' = IF bad THEN faults + 1 ELSE faults
    /\ UNCHANGED <<reads, toggles>>

TransportCall(outcome, n, bytes, via) ==
    /\ Fault(~Accepted(outcome))
    /\ received' = IF Accepted(outcome)
                   THEN Append(received, [n |-> n, via |-> via,
                                          timestamp |-> ParseFromArray(bytes).timestamp])
                   ELSE received
    /\ treated_sent' = IF uploadCompressedToServer(outcome)
                       THEN treated_sent \cup {n} ELSE treated_sent
    /\ transport_phase' = PhaseAfter(transport_phase, outcome)
    /\ clean_since' = IF Accepted(outcome) THEN clean_since ELSE {}

StoreCall(ok, n) ==
    /\ Fault(~ok)
    /\ stored' = IF ok THEN stored \cup {n} ELSE stored
    /\ reported' = IF ok THEN reported ELSE reported \cup {n}
    /\ drained_since_store' = IF ok THEN FALSE ELSE drained_since_store

(***************************************************************************)
(* main, up to the sample loop                                             *)
(***************************************************************************)
\* initDatabase succeeds; the toggle thread is started and detached
Startup ==
    /\ pc = "start"
    /\ pc' = "open"
    /\ UNCHANGED <<exit_code, run, is_online, was_offline, line_count, lineno,
                   source_ts, steady_clock, g_predictor, cur, db, db_seq,
                   flush_ret, stmt_rows, stmt_pos, count, failed>>
    /\ UNCHANGED <<hist_vars, env_vars>>
    /\ UNCHANGED <<pred_vars, toggle_vars>>

\* initDatabase returns nullptr: return 1
StartupFails ==
    /\ pc = "start"
    /\ pc' = "exit"
    /\ exit_code' = 1
    /\ UNCHANGED <<run, is_online, was_offline, line_count, lineno,
                   source_ts, steady_clock, g_predictor, cur, db, db_seq,
                   flush_ret, stmt_rows, stmt_pos, count, failed>>
    /\ UNCHANGED <<hist_vars, env_vars>>
    /\ UNCHANGED <<pred_vars, toggle_vars>>

\* One of the candidate paths of the log file opens
OpenSource ==
    /\ pc = "open"
    /\ pc' = "read"
    /\ UNCHANGED <<exit_code, run, is_online, was_offline, line_count, lineno,
                   source_ts, steady_clock, g_predictor, cur, db, db_seq,
                   flush_ret, stmt_rows, stmt_pos, count, failed>>
    /\ UNCHANGED <<hist_vars, env_vars>>
    /\ UNCHANGED <<pred_vars, toggle_vars>>

\* A failure to open the log file that ends main with the code of a clean
\* shutdown
OpenSourceFailsReturnsZero ==
    /\ pc = "open"
    /\ pc' = "exit"
    /\ exit_code' = 0
    /\ UNCHANGED <<run, is_online, was_offline, line_count, lineno,
                   source_ts, steady_clock, g_predictor, cur, db, db_seq,
                   flush_ret, stmt_rows, stmt_pos, count, failed>>
    /\ UNCHANGED <<hist_vars, env_vars>>
    /\ UNCHANGED <<pred_vars, toggle_vars>>

\* No candidate path opens: the paths are listed, sqlite3_close, return 1
OpenSourceFails ==
    /\ pc = "open"
    /\ pc' = "exit"
    /\ exit_code' = 1
    /\ UNCHANGED <<run, is_online, was_offline, line_count, lineno,
                   source_ts, steady_clock, g_predictor, cur, db, db_seq,
                   flush_ret, stmt_rows, stmt_pos, count, failed>>
    /\ UNCHANGED <<hist_vars, env_vars>>
    /\ UNCHANGED <<pred_vars, toggle_vars>>

(***************************************************************************)
(* connectionToggleThread                                                  *)
(***************************************************************************)
\* A toggle thread that, going Offline, also marks the outage for main
ToggleMarksOutage ==
    /\ pc \notin {"start", "exit", "done"}
    /\ toggles < MaxToggles
    /\ toggles' = toggles + 1
    /\ is_online' = ~is_online
    /\ was_offline' = (was_offline \/ is_online)
    /\ UNCHANGED <<pc, exit_code, run, line_count, lineno,
                   source_ts, steady_clock, g_predictor, cur, db, db_seq,
                   flush_ret, stmt_rows, stmt_pos, count, failed>>
    /\ UNCHANGED <<hist_vars, reads, faults>>
    /\ UNCHANGED <<pred_vars, toggle_vars>>

\* connectionToggleThread: one turn of its loop, as long as fewer than limit
\* toggle events have happened
ToggleUpTo(limit) ==
    /\ pc \notin {"start", "exit", "done"}
    /\ toggles < limit
    /\ toggles' = toggles + 1
    /\ is_online' = ~is_online
    /\ UNCHANGED <<pc, exit_code, run, was_offline, line_count, lineno,
                   source_ts, steady_clock, g_predictor, cur, db, db_seq,
                   flush_ret, stmt_rows, stmt_pos, count, failed>>
    /\ UNCHANGED <<hist_vars, reads, faults>>
    /\ UNCHANGED <<pred_vars, toggle_vars>>

\* one line on stdin: is_online = !is_online
Toggle == ToggleUpTo(MaxToggles)

(***************************************************************************)
(* main: the sample loop                                                   *)
(***************************************************************************)
\* A loop body that goes to the live upload without looking at was_offline
BranchOfNoDrain(online, wasoff) == IF online THEN "upload" ELSE "store"

\* The branch main takes on the values of is_online and was_offline it reads
BranchOf(online, wasoff) ==
    IF online THEN (IF wasoff THEN "flush_prepare" ELSE "upload") ELSE "store"

\* A loop body that reads is_online first and hands the sample to the
\* predictor only when the link is Online
ReadSampleFrozenOffline ==
    /\ pc = "read"
    /\ reads < MaxLines
    /\ reads' = reads + 1
    /\ \E s \in Samples(source_ts), dt \in ClockSteps :
         LET now == steady_clock + dt
             r == shouldTransmitPacket(g_predictor, s.speed, s.power,
                                        s.battery * Scale, s.heading * Scale, now)
         IN /\ steady_clock' = now
            /\ g_predictor' = IF is_online THEN r.predictor ELSE g_predictor
            /\ source_ts' = s.timestamp
            /\ cur' = [n |-> sample_no + 1, sample |-> s, decisions |-> r.decisions,
                       serialized_compressed |->
                           SerializeToString(CompressedRecord(s, r.decisions))]
    /\ lineno' = lineno + 1
    /\ sample_no' = sample_no + 1
    /\ pc' = BranchOf(is_online, was_offline)
    /\ flush_ret' = "loop"
    /\ flushed_this_iter' = FALSE
    /\ clean_since' = IF is_online THEN clean_since \cup Ns(db) ELSE clean_since
    /\ iteration' = [due |-> is_online /\ was_offline, rows |-> Ns(db),
                     select |-> "none", toggles |-> toggles]
    /\ UNCHANGED <<exit_code, run, is_online, was_offline, line_count, db, db_seq,
                   stmt_rows, stmt_pos, count, failed>>
    /\ UNCHANGED <<received, treated_sent, stored, reported, attempts,
                   drained_since_store, drain_failed_pending, transport_phase,
                   removed, survivors, live_called, toggles, faults>>
    /\ UNCHANGED pause_log
    /\ UNCHANGED <<pred_vars, toggle_vars>>

\* A sample taken up with a full resync forced when the link is found back
\* Online after an outage
ReadSampleResyncsOnReconnect ==
    /\ pc = "read"
    /\ reads < MaxLines
    /\ reads' = reads + 1
    /\ \E s \in Samples(source_ts), dt \in ClockSteps :
         LET now == steady_clock + dt
             r == shouldTransmitPacket(g_predictor, s.speed, s.power,
                                        s.battery * Scale, s.heading * Scale, now)
             d == IF is_online /\ was_offline
                  THEN [speed |-> TRUE, power |-> TRUE, battery |-> TRUE,
                        heading |-> TRUE, is_resync |-> TRUE]
                  ELSE r.decisions
         IN /\ steady_clock' = now
            /\ g_predictor' = r.predictor
            /\ source_ts' = s.timestamp
            /\ cur' = [n |-> sample_no + 1, sample |-> s, decisions |-> d,
                       serialized_compressed |->
                           SerializeToString(CompressedRecord(s, d))]
    /\ lineno' = lineno + 1
    /\ sample_no' = sample_no + 1
    /\ pc' = BranchOf(is_online, was_offline)
    /\ flush_ret' = "loop"
    /\ flushed_this_iter' = FALSE
    /\ clean_since' = IF is_online THEN clean_since \cup Ns(db) ELSE clean_since
    /\ iteration' = [due |-> is_online /\ was_offline, rows |-> Ns(db),
                     select |-> "none", toggles |-> toggles]
    /\ UNCHANGED <<exit_code, run, is_online, was_offline, line_count, db, db_seq,
                   stmt_rows, stmt_pos, count, failed>>
    /\ UNCHANGED <<received, treated_sent, stored, reported, attempts,
                   drained_since_store, drain_failed_pending, transport_phase,
                   removed, survivors, live_called, toggles, faults>>
    /\ UNCHANGED pause_log
    /\ UNCHANGED <<pred_vars, toggle_vars>>

\* getline, json::parse and the field extraction succeed; the predictor
\* decides; compressed_data is built; is_online is read
ReadSample ==
    /\ pc = "read"
    /\ reads < MaxLines
    /\ reads' = reads + 1
    /\ \E s \in Samples(source_ts), dt \in ClockSteps :
         LET now == steady_clock + dt
             r == shouldTransmitPacket(g_predictor, s.speed, s.power,
                                        s.battery * Scale, s.heading * Scale, now)
         IN /\ steady_clock' = now
            /\ g_predictor' = r.predictor
            /\ source_ts' = s.timestamp
            /\ cur' = [n |-> sample_no + 1, sample |-> s, decisions |-> r.decisions,
                       serialized_compressed |->
                           SerializeToString(CompressedRecord(s, r.decisions))]
    /\ lineno' = lineno + 1
    /\ sample_no' = sample_no + 1
    /\ pc' = BranchOf(is_online, was_offline)
    /\ flush_ret' = "loop"
    /\ flushed_this_iter' = FALSE
    /\ clean_since' = IF is_online THEN clean_since \cup Ns(db) ELSE clean_since
    /\ iteration' = [due |-> is_online /\ was_offline, rows |-> Ns(db),
                     select |-> "none", toggles |-> toggles]
    /\ UNCHANGED <<exit_code, run, is_online, was_offline, line_count, db, db_seq,
                   stmt_rows, stmt_pos, count, failed>>
    /\ UNCHANGED <<received, treated_sent, stored, reported, attempts,
                   drained_since_store, drain_failed_pending, transport_phase,
                   removed, survivors, live_called, toggles, faults>>
    /\ UNCHANGED pause_log
    /\ UNCHANGED <<pred_vars, toggle_vars>>

\* A line that cannot be parsed ends main
ParseErrorAborts ==
    /\ pc = "read"
    /\ reads < MaxLines
    /\ reads' = reads + 1
    /\ lineno' = lineno + 1
    /\ pc' = "exit"
    /\ exit_code' = 1
    /\ UNCHANGED <<run, is_online, was_offline, line_count,
                   source_ts, steady_clock, g_predictor, cur, db, db_seq,
                   flush_ret, stmt_rows, stmt_pos, count, failed>>
    /\ UNCHANGED <<hist_vars, toggles, faults>>
    /\ UNCHANGED <<pred_vars, toggle_vars>>

\* A parse error that still counts the line as processed
ParseErrorCountsLine ==
    /\ pc = "read"
    /\ reads < MaxLines
    /\ reads' = reads + 1
    /\ lineno' = lineno + 1
    /\ line_count' = line_count + 1
    /\ UNCHANGED <<pc, exit_code, run, is_online, was_offline,
                   source_ts, steady_clock, g_predictor, cur, db, db_seq,
                   flush_ret, stmt_rows, stmt_pos, count, failed>>
    /\ UNCHANGED <<hist_vars, toggles, faults>>
    /\ UNCHANGED <<pred_vars, toggle_vars>>

\* json::parse or a field access throws: the catch clauses log, next line
ParseError ==
    /\ pc = "read"
    /\ reads < MaxLines
    /\ reads' = reads + 1
    /\ lineno' = lineno + 1
    /\ UNCHANGED <<pc, exit_code, run, is_online, was_offline, line_count,
                   source_ts, steady_clock, g_predictor, cur, db, db_seq,
                   flush_ret, stmt_rows, stmt_pos, count, failed>>
    /\ UNCHANGED <<hist_vars, toggles, faults>>
    /\ UNCHANGED <<pred_vars, toggle_vars>>

\* A live upload that looks at is_online again and, finding the link gone
\* Offline since the sample's branch was taken, stores the sample instead
LiveUploadRechecksLink ==
    /\ pc = "upload"
    /\ IF is_online
       THEN \E outcome \in TransportOutcomes :
              /\ TransportCall(outcome, cur.n, cur.serialized_compressed, "live")
              /\ IF uploadCompressedToServer(outcome)
                 THEN /\ pc' = "read"
                      /\ line_count' = line_count + 1
                      /\ cur' = NoSample
                 ELSE /\ pc' = "fallback"
                      /\ UNCHANGED <<line_count, cur>>
              /\ live_called' = live_called \cup {cur.n}
       ELSE /\ pc' = "store"
            /\ UNCHANGED <<line_count, cur, live_called, received, treated_sent,
                           transport_phase, clean_since, env_vars>>
    /\ UNCHANGED <<exit_code, run, is_online, was_offline, lineno, source_ts,
                   steady_clock, g_predictor, db, db_seq,
                   flush_ret, stmt_rows, stmt_pos, count, failed>>
    /\ UNCHANGED <<sample_no, stored, reported, attempts, drained_since_store,
                   drain_failed_pending, flushed_this_iter, removed, survivors,
                   iteration>>
    /\ UNCHANGED pause_log
    /\ UNCHANGED <<pred_vars, toggle_vars>>

\* A live upload after which the record is buffered whatever the result
LiveUploadAlwaysBuffers ==
    /\ pc = "upload"
    /\ \E outcome \in TransportOutcomes :
         TransportCall(outcome, cur.n, cur.serialized_compressed, "live")
    /\ pc' = "fallback"
    /\ UNCHANGED <<line_count, cur>>
    /\ UNCHANGED <<exit_code, run, is_online, was_offline, lineno, source_ts,
                   steady_clock, g_predictor, db, db_seq,
                   flush_ret, stmt_rows, stmt_pos, count, failed>>
    /\ live_called' = live_called \cup {cur.n}
    /\ UNCHANGED <<sample_no, stored, reported, attempts, drained_since_store,
                   drain_failed_pending, flushed_this_iter, removed, survivors,
                   iteration>>
    /\ UNCHANGED pause_log
    /\ UNCHANGED <<pred_vars, toggle_vars>>

\* uploadCompressedToServer(serialized_compressed, compressed_data)
LiveUpload ==
    /\ pc = "upload"
    /\ \E outcome \in TransportOutcomes :
         /\ TransportCall(outcome, cur.n, cur.serialized_compressed, "live")
         /\ IF uploadCompressedToServer(outcome)
            THEN /\ pc' = "read"
                 /\ line_count' = line_count + 1
                 /\ cur' = NoSample
            ELSE /\ pc' = "fallback"
                 /\ UNCHANGED <<line_count, cur>>
    /\ UNCHANGED <<exit_code, run, is_online, was_offline, lineno, source_ts,
                   steady_clock, g_predictor, db, db_seq,
                   flush_ret, stmt_rows, stmt_pos, count, failed>>
    /\ live_called' = live_called \cup {cur.n}
    /\ UNCHANGED <<sample_no, stored, reported, attempts, drained_since_store,
                   drain_failed_pending, flushed_this_iter, removed, survivors,
                   iteration>>
    /\ UNCHANGED pause_log
    /\ UNCHANGED <<pred_vars, toggle_vars>>

\* A fallback store after which main marks the link Offline
FallbackStoreMarksOffline ==
    /\ pc = "fallback"
    /\ \E ok \in BOOLEAN :
         /\ db' = storeToBuffer(db, db_seq, cur.sample.timestamp,
                                cur.serialized_compressed, cur.n, ok)
         /\ db_seq' = IF ok THEN db_seq + 1 ELSE db_seq
         /\ StoreCall(ok, cur.n)
    /\ pc' = "read"
    /\ is_online' = FALSE
    /\ line_count' = line_count + 1
    /\ cur' = NoSample
    /\ UNCHANGED <<exit_code, run, was_offline, lineno, source_ts,
                   steady_clock, g_predictor,
                   flush_ret, stmt_rows, stmt_pos, count, failed>>
    /\ UNCHANGED <<sample_no, received, treated_sent, attempts,
                   drain_failed_pending, flushed_this_iter, transport_phase,
                   clean_since, removed, survivors, live_called, iteration>>
    /\ UNCHANGED pause_log
    /\ UNCHANGED <<pred_vars, toggle_vars>>

\* [FALLBACK] storeToBuffer(db, timestamp, serialized_compressed)
FallbackStore ==
    /\ pc = "fallback"
    /\ \E ok \in BOOLEAN :
         /\ db' = storeToBuffer(db, db_seq, cur.sample.timestamp,
                                cur.serialized_compressed, cur.n, ok)
         /\ db_seq' = IF ok THEN db_seq + 1 ELSE db_seq
         /\ StoreCall(ok, cur.n)
    /\ pc' = "read"
    /\ line_count' = line_count + 1
    /\ cur' = NoSample
    /\ UNCHANGED <<exit_code, run, is_online, was_offline, lineno, source_ts,
                   steady_clock, g_predictor,
                   flush_ret, stmt_rows, stmt_pos, count, failed>>
    /\ UNCHANGED <<sample_no, received, treated_sent, attempts,
                   drain_failed_pending, flushed_this_iter, transport_phase,
                   clean_since, removed, survivors, live_called, iteration>>
    /\ UNCHANGED pause_log
    /\ UNCHANGED <<pred_vars, toggle_vars>>

\* An Offline branch that sets was_offline only when the store succeeded
OfflineStoreMarksOnSuccess ==
    /\ pc = "store"
    /\ \E ok \in BOOLEAN :
         /\ db' = storeToBuffer(db, db_seq, cur.sample.timestamp,
                                SerializeToString(CompleteRecord(cur.sample)),
                                cur.n, ok)
         /\ db_seq' = IF ok THEN db_seq + 1 ELSE db_seq
         /\ StoreCall(ok, cur.n)
         /\ was_offline' = (was_offline \/ ok)
    /\ pc' = "read"
    /\ line_count' = line_count + 1
    /\ cur' = NoSample
    /\ UNCHANGED <<exit_code, run, is_online, lineno, source_ts,
                   steady_clock, g_predictor,
                   flush_ret, stmt_rows, stmt_pos, count, failed>>
    /\ UNCHANGED <<sample_no, received, treated_sent, attempts,
                   drain_failed_pending, flushed_this_iter, transport_phase,
                   clean_since, removed, survivors, live_called, iteration>>
    /\ UNCHANGED pause_log
    /\ UNCHANGED <<pred_vars, toggle_vars>>

\* Offline branch: storeToBuffer(db, timestamp, serialized_complete),
\* was_offline = true
OfflineStore ==
    /\ pc = "store"
    /\ \E ok \in BOOLEAN :
         /\ db' = storeToBuffer(db, db_seq, cur.sample.timestamp,
                                SerializeToString(CompleteRecord(cur.sample)),
                                cur.n, ok)
         /\ db_seq' = IF ok THEN db_seq + 1 ELSE db_seq
         /\ StoreCall(ok, cur.n)
    /\ was_offline' = TRUE
    /\ pc' = "read"
    /\ line_count' = line_count + 1
    /\ cur' = NoSample
    /\ UNCHANGED <<exit_code, run, is_online, lineno, source_ts,
                   steady_clock, g_predictor,
                   flush_ret, stmt_rows, stmt_pos, count, failed>>
    /\ UNCHANGED <<sample_no, received, treated_sent, attempts,
                   drain_failed_pending, flushed_this_iter, transport_phase,
                   clean_since, removed, survivors, live_called, iteration>>
    /\ UNCHANGED pause_log
    /\ UNCHANGED <<pred_vars, toggle_vars>>

\* An end of the loop that drains on was_offline alone
EndOfSourceIgnoresLink ==
    /\ pc = "read"
    /\ IF was_offline
       THEN /\ pc' = "flush_prepare"
            /\ flush_ret' = "final"
            /\ UNCHANGED exit_code
       ELSE /\ pc' = "done"
            /\ exit_code' = 0
            /\ UNCHANGED flush_ret
    /\ UNCHANGED <<run, is_online, was_offline, line_count, lineno,
                   source_ts, steady_clock, g_predictor, cur, db, db_seq,
                   stmt_rows, stmt_pos, count, failed>>
    /\ UNCHANGED <<hist_vars, env_vars>>
    /\ UNCHANGED <<pred_vars, toggle_vars>>

\* getline fails: the loop ends; "if (is_online && was_offline)" is read
EndOfSource ==
    /\ pc = "read"
    /\ IF is_online /\ was_offline
       THEN /\ pc' = "flush_prepare"
            /\ flush_ret' = "final"
            /\ UNCHANGED exit_code
       ELSE /\ pc' = "done"
            /\ exit_code' = 0
            /\ UNCHANGED flush_ret
    /\ UNCHANGED <<run, is_online, was_offline, line_count, lineno,
                   source_ts, steady_clock, g_predictor, cur, db, db_seq,
                   stmt_rows, stmt_pos, count, failed>>
    /\ UNCHANGED <<hist_vars, env_vars>>
    /\ UNCHANGED <<pred_vars, toggle_vars>>

(***************************************************************************)
(* flushBuffer                                                             *)
(***************************************************************************)
\* A return from flushBuffer after which main's loop leaves was_offline set
ReturnFromFlushKeepsFlag ==
    /\ IF flush_ret = "loop"
       THEN /\ pc' = "upload"
            /\ UNCHANGED <<was_offline, exit_code>>
       ELSE /\ pc' = "done"
            /\ exit_code' = 0
            /\ UNCHANGED was_offline
    /\ drained_since_store' = TRUE
    /\ flushed_this_iter' = TRUE

\* What the caller does when flushBuffer returns: main's loop clears
\* was_offline and goes on to the live upload, the final flush ends main
ReturnFromFlush ==
    /\ IF flush_ret = "loop"
       THEN /\ pc' = "upload"
            /\ was_offline' = FALSE
            /\ UNCHANGED exit_code
       ELSE /\ pc' = "done"
            /\ exit_code' = 0
            /\ UNCHANGED was_offline
    /\ drained_since_store' = TRUE
    /\ flushed_this_iter' = TRUE

\* A drain pass that sleeps before its first upload
FlushPreparePausesFirst ==
    /\ pc = "flush_prepare"
    /\ \E rows \in OrderByTimestamp(db) : stmt_rows' = rows
    /\ stmt_pos' = 1
    /\ count' = 0
    /\ failed' = 0
    /\ attempts' = <<>>
    /\ pause_log' = <<[after |-> 0, ms |-> DrainPause]>>
    /\ iteration' = [iteration EXCEPT !.select = "done"]
    /\ pc' = "flush_step"
    /\ UNCHANGED <<exit_code, run, is_online, was_offline, line_count, lineno,
                   source_ts, steady_clock, g_predictor, cur, db, db_seq, flush_ret>>
    /\ UNCHANGED <<sample_no, received, treated_sent, stored, reported,
                   drained_since_store, drain_failed_pending, flushed_this_iter,
                   transport_phase, clean_since, removed, survivors,
                   live_called, reads, toggles, faults>>
    /\ UNCHANGED <<pred_vars, toggle_vars>>

\* sqlite3_prepare_v2 of the SELECT succeeds; the rows come ordered
FlushPrepare ==
    /\ pc = "flush_prepare"
    /\ \E rows \in OrderByTimestamp(db) : stmt_rows' = rows
    /\ stmt_pos' = 1
    /\ count' = 0
    /\ failed' = 0
    /\ attempts' = <<>>
    /\ pause_log' = <<>>
    /\ iteration' = [iteration EXCEPT !.select = "done"]
    /\ pc' = "flush_step"
    /\ UNCHANGED <<exit_code, run, is_online, was_offline, line_count, lineno,
                   source_ts, steady_clock, g_predictor, cur, db, db_seq, flush_ret>>
    /\ UNCHANGED <<sample_no, received, treated_sent, stored, reported,
                   drained_since_store, drain_failed_pending, flushed_this_iter,
                   transport_phase, clean_since, removed, survivors,
                   live_called, reads, toggles, faults>>
    /\ UNCHANGED <<pred_vars, toggle_vars>>

\* sqlite3_prepare_v2 fails: [FLUSH ERROR], flushBuffer returns at once
FlushPrepareFails ==
    /\ pc = "flush_prepare"
    /\ Fault(TRUE)
    /\ ReturnFromFlush
    /\ clean_since' = {}
    /\ attempts' = <<>>
    /\ pause_log' = <<>>
    /\ iteration' = [iteration EXCEPT !.select = "failed"]
    /\ UNCHANGED <<run, is_online, line_count, lineno,
                   source_ts, steady_clock, g_predictor, cur, db, db_seq,
                   flush_ret, stmt_rows, stmt_pos, count, failed>>
    /\ UNCHANGED <<sample_no, received, treated_sent, stored, reported,
                   drain_failed_pending, transport_phase, removed, survivors,
                   live_called>>
    /\ UNCHANGED <<pred_vars, toggle_vars>>

\* A turn of the drain loop that deletes a row it cannot decode
FlushRowDropsMalformed ==
    /\ pc = "flush_step"
    /\ stmt_pos <= Len(stmt_rows)
    /\ LET row == stmt_rows[stmt_pos]
       IN IF Parseable(row.protobuf_data)
          THEN \E outcome \in TransportOutcomes :
                 /\ TransportCall(outcome, row.n, row.protobuf_data, "drain")
                 /\ attempts' = Append(attempts,
                                       [n |-> row.n, id |-> row.id,
                                        timestamp |-> row.timestamp,
                                        ok |-> uploadCompressedToServer(outcome),
                                        accepted |-> Accepted(outcome)])
                 /\ IF uploadCompressedToServer(outcome)
                    THEN /\ pc' = "flush_delete"
                         /\ UNCHANGED <<stmt_pos, failed>>
                    ELSE /\ failed' = failed + 1
                         /\ stmt_pos' = stmt_pos + 1
                         /\ UNCHANGED pc
                 /\ UNCHANGED db
          ELSE /\ stmt_pos' = stmt_pos + 1
               /\ db' = DeleteRow(db, row.id)
               /\ UNCHANGED <<pc, failed, attempts, received, treated_sent,
                              transport_phase, clean_since, reads, toggles, faults>>
    /\ UNCHANGED <<exit_code, run, is_online, was_offline, line_count, lineno,
                   source_ts, steady_clock, g_predictor, cur, db_seq,
                   flush_ret, stmt_rows, count>>
    /\ UNCHANGED <<sample_no, stored, reported, drained_since_store,
                   drain_failed_pending, flushed_this_iter, removed, survivors,
                   live_called, iteration>>
    /\ UNCHANGED pause_log
    /\ UNCHANGED <<pred_vars, toggle_vars>>

\* One turn of "while (sqlite3_step(stmt) == SQLITE_ROW)" up to the upload
FlushRow ==
    /\ pc = "flush_step"
    /\ stmt_pos <= Len(stmt_rows)
    /\ LET row == stmt_rows[stmt_pos]
       IN IF Parseable(row.protobuf_data)
          THEN \E outcome \in TransportOutcomes :
                 /\ TransportCall(outcome, row.n, row.protobuf_data, "drain")
                 /\ attempts' = Append(attempts,
                                       [n |-> row.n, id |-> row.id,
                                        timestamp |-> row.timestamp,
                                        ok |-> uploadCompressedToServer(outcome),
                                        accepted |-> Accepted(outcome)])
                 /\ IF uploadCompressedToServer(outcome)
                    THEN /\ pc' = "flush_delete"
                         /\ UNCHANGED <<stmt_pos, failed>>
                    ELSE /\ failed' = failed + 1
                         /\ stmt_pos' = stmt_pos + 1
                         /\ UNCHANGED pc
          ELSE /\ stmt_pos' = stmt_pos + 1
               /\ UNCHANGED <<pc, failed, attempts, received, treated_sent,
                              transport_phase, clean_since, reads, toggles, faults>>
    /\ UNCHANGED <<exit_code, run, is_online, was_offline, line_count, lineno,
                   source_ts, steady_clock, g_predictor, cur, db, db_seq,
                   flush_ret, stmt_rows, count>>
    /\ UNCHANGED <<sample_no, stored, reported, drained_since_store,
                   drain_failed_pending, flushed_this_iter, removed, survivors,
                   live_called, iteration>>
    /\ UNCHANGED pause_log
    /\ UNCHANGED <<pred_vars, toggle_vars>>

\* After a successful upload: the DELETE (its result is not looked at),
\* count++, the 100 ms sleep
FlushDelete ==
    /\ pc = "flush_delete"
    /\ LET row == stmt_rows[stmt_pos]
       IN \E ok \in BOOLEAN :
            /\ Fault(~ok)
            /\ db' = IF ok THEN DeleteRow(db, row.id) ELSE db
            /\ removed' = IF ok THEN removed \cup {row.n} ELSE removed
    /\ count' = count + 1
    /\ pause_log' = Append(pause_log, [after |-> Len(attempts), ms |-> DrainPause])
    /\ stmt_pos' = stmt_pos + 1
    /\ pc' = "flush_step"
    /\ UNCHANGED <<exit_code, run, is_online, was_offline, line_count, lineno,
                   source_ts, steady_clock, g_predictor, cur, db_seq,
                   flush_ret, stmt_rows, failed>>
    /\ UNCHANGED <<sample_no, received, treated_sent, stored, reported, attempts,
                   drained_since_store, drain_failed_pending, flushed_this_iter,
                   transport_phase, clean_since, survivors,
                   live_called, iteration>>
    /\ UNCHANGED <<pred_vars, toggle_vars>>

\* A return from flushBuffer after which the caller resets the predictor
FlushReturnResets ==
    /\ pc = "flush_step"
    /\ stmt_pos > Len(stmt_rows)
    /\ ReturnFromFlush
    /\ drain_failed_pending' = (failed > 0)
    /\ g_predictor' = reset(g_predictor, steady_clock)
    /\ UNCHANGED <<run, is_online, line_count, lineno,
                   source_ts, steady_clock, cur, db, db_seq,
                   flush_ret, stmt_rows, stmt_pos, count, failed>>
    /\ UNCHANGED <<sample_no, received, treated_sent, stored, reported, attempts,
                   transport_phase, clean_since, removed, survivors,
                   live_called, iteration, reads, toggles, faults>>
    /\ UNCHANGED pause_log
    /\ UNCHANGED <<pred_vars, toggle_vars>>

\* sqlite3_step reports no more rows: finalize, report, return
FlushReturn ==
    /\ pc = "flush_step"
    /\ stmt_pos > Len(stmt_rows)
    /\ ReturnFromFlush
    /\ drain_failed_pending' = (failed > 0)
    /\ UNCHANGED <<run, is_online, line_count, lineno,
                   source_ts, steady_clock, g_predictor, cur, db, db_seq,
                   flush_ret, stmt_rows, stmt_pos, count, failed>>
    /\ UNCHANGED <<sample_no, received, treated_sent, stored, reported, attempts,
                   transport_phase, clean_since, removed, survivors,
                   live_called, iteration, reads, toggles, faults>>
    /\ UNCHANGED pause_log
    /\ UNCHANGED <<pred_vars, toggle_vars>>

(***************************************************************************)
(* The process is killed and started again with the same VIN: the buffer   *)
(* file stays, everything in memory starts afresh, the log file is read    *)
(* from its first line.                                                    *)
(***************************************************************************)
CrashRestart ==
    /\ run < MaxRuns
    /\ pc # "exit"
    /\ run' = run + 1
    /\ pc' = "start"
    /\ exit_code' = -1
    /\ is_online' = TRUE
    /\ was_offline' = FALSE
    /\ line_count' = 0
    /\ lineno' = 0
    /\ source_ts' = 1
    /\ g_predictor' = NewPredictor(steady_clock)
    /\ cur' = NoSample
    /\ flush_ret' = "loop"
    /\ stmt_rows' = <<>>
    /\ stmt_pos' = 1
    /\ count' = 0
    /\ failed' = 0
    /\ attempts' = <<>>
    /\ drained_since_store' = TRUE
    /\ drain_failed_pending' = FALSE
    /\ flushed_this_iter' = FALSE
    /\ transport_phase' = "failing"
    /\ clean_since' = {}
    /\ survivors' = Ns(db)
    /\ iteration' = NoIteration
    /\ pause_log' = <<>>
    /\ UNCHANGED live_called
    /\ UNCHANGED env_vars
    /\ UNCHANGED <<steady_clock, db, db_seq>>
    /\ UNCHANGED <<sample_no, received, treated_sent, stored, reported, removed>>
    /\ UNCHANGED <<pred_vars, toggle_vars>>

(***************************************************************************)
(* Specifications                                                          *)
(***************************************************************************)
Next ==
    \/ Startup
    \/ StartupFails
    \/ OpenSource
    \/ OpenSourceFails
    \/ Toggle
    \/ ReadSample
    \/ ParseError
    \/ LiveUpload
    \/ FallbackStore
    \/ OfflineStore
    \/ EndOfSource
    \/ FlushPrepare
    \/ FlushPrepareFails
    \/ FlushRow
    \/ FlushDelete
    \/ FlushReturn

\* One run of the agent
Spec == Init /\ [][Next]_vars

\* The steps of the main thread
MainStep ==
    \/ Startup
    \/ StartupFails
    \/ OpenSource
    \/ OpenSourceFails
    \/ ReadSample
    \/ ParseError
    \/ LiveUpload
    \/ FallbackStore
    \/ OfflineStore
    \/ EndOfSource
    \/ FlushPrepare
    \/ FlushPrepareFails
    \/ FlushRow
    \/ FlushDelete
    \/ FlushReturn

\* One run of the agent in which the main thread is not held up for ever:
\* every call it makes returns (transfers are cut off after 5 s, the sleeps
\* are finite) and the scheduler lets it run
FairSpec == Spec /\ WF_vars(MainStep)

CrashNext == Next \/ CrashRestart

\* Runs of the agent with kills and restarts in between
CrashSpec == Init /\ [][CrashNext]_vars

(***************************************************************************)
(* The predictor on its own: main's calls of shouldTransmitPacket with     *)
(* samples that exercise the tolerances, the link toggling meanwhile, and  *)
(* a second TelemetryPredictor that is handed every call after the first   *)
(* instance, with the same sample and the same clock reading.              *)
(***************************************************************************)
\* A main that calls g_predictor.reset() for the first sample it finds the
\* link Online again after samples processed Offline
PredictorCallResetsAfterOutage ==
    /\ pc = "read"
    /\ Len(feed) < MaxFeed
    /\ Len(twin_decisions) = Len(feed)
    /\ \E s \in PredictorSamples, dt \in PredictorClockSteps :
         LET now == steady_clock + dt
             back == Len(feed) > 0 /\ ~feed[Len(feed)].online /\ is_online
             p == IF back THEN reset(g_predictor, now) ELSE g_predictor
             r == shouldTransmitPacket(p, s.speed, s.power,
                                        s.battery * Scale, s.heading * Scale, now)
         IN /\ steady_clock' = now
            /\ g_predictor' = r.predictor
            /\ feed' = Append(feed, [sample |-> s, now |-> now,
                                     before |-> g_predictor,
                                     decisions |-> r.decisions,
                                     online |-> is_online])
    /\ UNCHANGED <<pc, exit_code, run, is_online, was_offline, line_count, lineno,
                   source_ts, cur, db, db_seq,
                   flush_ret, stmt_rows, stmt_pos, count, failed>>
    /\ UNCHANGED <<hist_vars, env_vars, twin_predictor, twin_decisions, toggle_vars>>

\* g_predictor.shouldTransmitPacket(speed, power, battery, heading), and the
\* value of is_online main reads for this sample
PredictorCall ==
    /\ pc = "read"
    /\ Len(feed) < MaxFeed
    /\ Len(twin_decisions) = Len(feed)
    /\ \E s \in PredictorSamples, dt \in PredictorClockSteps :
         LET now == steady_clock + dt
             r == shouldTransmitPacket(g_predictor, s.speed, s.power,
                                        s.battery * Scale, s.heading * Scale, now)
         IN /\ steady_clock' = now
            /\ g_predictor' = r.predictor
            /\ feed' = Append(feed, [sample |-> s, now |-> now,
                                     before |-> g_predictor,
                                     decisions |-> r.decisions,
                                     online |-> is_online])
    /\ UNCHANGED <<pc, exit_code, run, is_online, was_offline, line_count, lineno,
                   source_ts, cur, db, db_seq,
                   flush_ret, stmt_rows, stmt_pos, count, failed>>
    /\ UNCHANGED <<hist_vars, env_vars, twin_predictor, twin_decisions, toggle_vars>>

\* The second instance's shouldTransmitPacket on the call it has not had yet
TwinCall ==
    /\ Len(twin_decisions) < Len(feed)
    /\ LET e == feed[Len(twin_decisions) + 1]
           r == shouldTransmitPacket(twin_predictor, e.sample.speed, e.sample.power,
                                      e.sample.battery * Scale,
                                      e.sample.heading * Scale, e.now)
       IN /\ twin_predictor' = r.predictor
          /\ twin_decisions' = Append(twin_decisions, r.decisions)
    /\ UNCHANGED <<prog_vars, hist_vars, env_vars, feed, toggle_vars>>

PredictorNext ==
    \/ Startup
    \/ OpenSource
    \/ Toggle
    \/ PredictorCall
    \/ TwinCall

PredictorSpec == Init /\ [][PredictorNext]_vars

(***************************************************************************)
(* Properties                                                              *)
(***************************************************************************)
ReceivedNs == {received[i].n : i \in 1..Len(received)}

\* C1: the records the ingest endpoint accepts, live and drained, arrive in
\* non-decreasing timestamp order (the log's timestamps are non-decreasing).
C1_Ordering ==
    \A i, j \in 1..Len(received) :
        i < j => received[i].timestamp <= received[j].timestamp

\* C2: no record is silently dropped: the record of every sample whose loop
\* iteration is over was accepted by the endpoint, or is in the buffer, or
\* its storeToBuffer call reported the loss.
C2_NoSilentDrop ==
    \A n \in 1..sample_no :
        n # cur.n => (n \in ReceivedNs \/ n \in Ns(db) \/ n \in reported)

\* C3: at-least-once delivery.  When main returns after a run in which the
\* transport first failed and then answered 2xx on every later call, each
\* row that was in the buffer when a sample began to be processed Online,
\* with no call failing from then on, has been accepted by the endpoint.
C3_AtLeastOnce ==
    (pc = "done" /\ transport_phase # "other") => clean_since \subseteq ReceivedNs

\* C4: whenever main is about to upload a sample's record live, flushBuffer
\* has run since the last row was stored in the buffer.
C4_DrainBeforeLive == pc = "upload" => drained_since_store

\* C5: uploadCompressedToServer returns true exactly for the calls the
\* endpoint answered with 2xx: the samples treated as sent are the samples
\* the endpoint accepted.
C5_SuccessIffAccepted == treated_sent = ReceivedNs

\* C6: every payload in the buffer decodes to a full record: is_resync set
\* and speed, power, battery and heading all present.
C6_BufferedAreFull ==
    \A i \in 1..Len(db) :
        /\ Parseable(db[i].protobuf_data)
        /\ IsFull(ParseFromArray(db[i].protobuf_data))

\* Rows of the running SELECT whose upload failed in this pass
FailedRows ==
    {i \in 1..Len(stmt_rows) :
        \E k \in 1..Len(attempts) : attempts[k].n = stmt_rows[i].n /\ ~attempts[k].ok}

\* C7: a drain pass stops at the first failed upload: no upload is attempted
\* after it in the same pass, and when the pass returns the failed row and
\* all rows after it are still in the buffer.
C7_DrainStopsAtFailure ==
    /\ \A k \in 1..Len(attempts) - 1 : attempts[k].ok
    /\ (pc = "flush_step" /\ stmt_pos > Len(stmt_rows)) =>
          \A f \in FailedRows : \A i \in f..Len(stmt_rows) :
              stmt_rows[i].id \in Ids(db)

\* C8: after a drain pass in which an upload failed, the next sample
\* processed Online drains again before its live upload.
C8_RedrainAfterFailedDrain ==
    (pc = "upload" /\ drain_failed_pending) => flushed_this_iter

\* C9: crash durability.  Rows stored and not deleted are in the buffer in
\* every state, whatever kills and restarts happened; and when a restarted
\* run returns, the rows it found at its start that were in the buffer when
\* a sample began to be processed Online, with no call failing from then on,
\* have been accepted by the endpoint.
C9_CrashDurability ==
    /\ (stored \ removed) \subseteq Ns(db)
    /\ (pc = "done" /\ run > 1) => (clean_since \cap survivors) \subseteq ReceivedNs

\* C10: a row leaves the buffer only after its payload was uploaded
\* successfully: every sample stored once and no longer in the buffer has
\* been accepted by the endpoint.
C10_RemovedOnlyAfterUpload == (stored \ Ns(db)) \subseteq ReceivedNs

\* C11: within one drain pass the uploads are attempted in non-decreasing
\* timestamp order, and rows of equal timestamp in increasing id order.
C11_DrainOrder ==
    \A i, j \in 1..Len(attempts) :
        i < j => \/ attempts[i].timestamp < attempts[j].timestamp
                 \/ /\ attempts[i].timestamp = attempts[j].timestamp
                    /\ attempts[i].id < attempts[j].id

\* Positions of the main thread inside flushBuffer
DrainPositions == {"flush_prepare", "flush_step", "flush_delete"}

AllDrainUploadsAccepted == \A k \in 1..Len(attempts) : attempts[k].accepted

Payloads ==
    (IF cur.n # 0 THEN {cur.serialized_compressed} ELSE {})
    \cup {db[i].protobuf_data : i \in 1..Len(db)}

AllOptionalPresent(m) ==
    m.has_vehicle_speed /\ m.has_power_kw /\ m.has_battery_level /\ m.has_heading

\* C13: resync implies full: every record the agent produces, the
\* compressed record it builds for the live upload and the payloads it puts
\* in the buffer, that has is_resync = true has speed, power, battery and
\* heading all present.  Stated of each payload at the step that brings it
\* into being.
C13_ResyncImpliesFull ==
    [][\A b \in Payloads' \ Payloads :
          LET m == ParseFromArray(b)
          IN m.is_resync => AllOptionalPresent(m)]_vars

\* C13 witness: a compressed record marked is_resync by the predictor is
\* about to be uploaded live while a record stored Offline is in the buffer.
C13_Witness ==
    /\ pc = "upload" /\ cur.decisions.is_resync
    /\ g_predictor.total_readings > 1
    /\ \E i \in 1..Len(db) : ParseFromArray(db[i].protobuf_data).is_resync

\* The payload b carries the timestamp and the odometer of sample s
CarriesTimeAndOdometer(b, s) ==
    LET m == ParseFromArray(b)
    IN /\ HasField(b, 1) /\ m.timestamp = s.timestamp
       /\ HasField(b, 2) /\ m.odometer = s.odometer

\* C14: every record the agent produces, compressed or full, carries the
\* timestamp and the odometer of the sample it was built from, whatever the
\* decisions and the link state: the compressed record when it is built,
\* each row (payload and timestamp column) when it is stored, and each
\* record the endpoint accepts when it is uploaded, live or from the buffer.
C14_TimestampAndOdometer ==
    [][/\ (cur' # cur /\ cur'.n # 0) =>
            CarriesTimeAndOdometer(cur'.serialized_compressed, cur'.sample)
       /\ Len(db') > Len(db) =>
            /\ CarriesTimeAndOdometer(db'[Len(db')].protobuf_data, cur.sample)
            /\ db'[Len(db')].timestamp = cur.sample.timestamp
       /\ (Len(received') > Len(received) /\ pc = "upload") =>
            received'[Len(received')].timestamp = cur.sample.timestamp
       /\ (Len(received') > Len(received) /\ pc = "flush_step") =>
            received'[Len(received')].timestamp = stmt_rows[stmt_pos].timestamp]_vars

\* C14 witness: a compressed record with no optional field is in hand, a
\* full record stored Offline and a compressed record stored by the fallback
\* are in the buffer, the drain is about to begin.
C14_Witness ==
    /\ pc = "flush_prepare" /\ cur.n # 0
    /\ ~(cur.decisions.speed \/ cur.decisions.power
          \/ cur.decisions.battery \/ cur.decisions.heading)
    /\ \E i, j \in 1..Len(db) :
          /\ IsFull(ParseFromArray(db[i].protobuf_data))
          /\ ~IsFull(ParseFromArray(db[j].protobuf_data))

\* C15: the predictor changes only in the step that calls
\* shouldTransmitPacket for a new sample: link toggles, the Offline to Online
\* transition and the steps of a drain pass leave predicted values, has_*
\* flags, last_resync_time and the counters as they are, and no step takes
\* the has_* flags or the counters back (reset() is not called).
C15_PredictorFrame ==
    [][/\ g_predictor' # g_predictor =>
            /\ pc = "read" /\ sample_no' = sample_no + 1
            /\ g_predictor'.total_readings = g_predictor.total_readings + 1
       /\ (is_online' # is_online \/ was_offline' # was_offline
            \/ pc \in DrainPositions) => g_predictor' = g_predictor
       /\ g_predictor'.total_readings >= g_predictor.total_readings
       /\ g_predictor.has_speed => g_predictor'.has_speed]_vars

\* C15 witness: after two toggles and a drain pass that emptied the buffer
\* the predictor still holds the readings of all the samples handed to it.
C15_Witness ==
    /\ pc = "upload" /\ flushed_this_iter /\ toggles = 2
    /\ removed # {}
    /\ g_predictor.has_speed /\ g_predictor.total_readings = sample_no
    /\ sample_no >= 2

\* C16: resync cadence: in any contiguous run of calls made for samples
\* processed Online whose first and last clock readings are at least
\* resync_interval seconds apart, one decision at least has is_resync.
C16_ResyncCadence ==
    \A i, j \in 1..Len(feed) :
        (/\ i <= j
         /\ \A k \in i..j : feed[k].online
         /\ feed[j].now - feed[i].now >= resync_interval * 1000)
        => \E k \in i..j : feed[k].decisions.is_resync

\* C16 witness: three samples processed Online, the first and the last 30 s
\* apart with no gap of 30 s between neighbours, the resync on the last.
C16_Witness ==
    /\ Len(feed) = 3
    /\ \A k \in 1..3 : feed[k].online
    /\ feed[3].now - feed[1].now = resync_interval * 1000
    /\ feed[2].now - feed[1].now = 15000
    /\ ~feed[1].decisions.is_resync /\ ~feed[2].decisions.is_resync
    /\ feed[3].decisions.is_resync

AllFlags(d) == d.speed /\ d.power /\ d.battery /\ d.heading

\* C17: no false skips: the decision of the first call on a fresh predictor
\* has the speed, power, battery and heading flags set, whatever the sample.
C17_FirstCallSetsAllFlags ==
    Len(feed) >= 1 => AllFlags(feed[1].decisions)

\* C17 witness: the first call was made with a sample of all zeros, which
\* equal the fresh predictor's predicted values, and was no resync.
C17_Witness ==
    /\ Len(feed) >= 1
    /\ feed[1].sample.speed = 0 /\ feed[1].sample.heading = 0
    /\ ~feed[1].before.has_speed
    /\ ~feed[1].decisions.is_resync

\* |actual - predicted| of the four fields at call e, in thousandths
SpeedError(e) == Abs(e.sample.speed - e.before.predicted_speed)
PowerError(e) == Abs(e.sample.power - e.before.predicted_power)
BatteryError(e) == Abs(e.sample.battery * Scale - e.before.predicted_battery)
HeadingError(e) == Abs(e.sample.heading * Scale - e.before.predicted_heading)

\* C18: threshold semantics: on a decision that is no resync, the flag of an
\* initialised field is set if and only if |actual - predicted| is strictly
\* greater than the field's tolerance.
C18_ThresholdSemantics ==
    \A k \in 1..Len(feed) :
        LET e == feed[k]
        IN ~e.decisions.is_resync =>
             /\ e.before.has_speed =>
                   (e.decisions.speed <=> SpeedError(e) > speed_threshold)
             /\ e.before.has_power =>
                   (e.decisions.power <=> PowerError(e) > power_threshold)
             /\ e.before.has_battery =>
                   (e.decisions.battery <=> BatteryError(e) > battery_threshold)
             /\ e.before.has_heading =>
                   (e.decisions.heading <=> HeadingError(e) > heading_threshold)

\* C18 witness: for each field a call that was no resync found the
\* initialised field exactly at its tolerance and left the flag unset, and a
\* call found the speed above its tolerance and set the flag.
C18_Witness ==
    /\ \E k \in 1..Len(feed) :
          /\ ~feed[k].decisions.is_resync /\ feed[k].before.has_speed
          /\ SpeedError(feed[k]) = speed_threshold /\ ~feed[k].decisions.speed
          /\ PowerError(feed[k]) = power_threshold /\ ~feed[k].decisions.power
          /\ HeadingError(feed[k]) = heading_threshold /\ ~feed[k].decisions.heading
    /\ \E k \in 1..Len(feed) :
          /\ ~feed[k].decisions.is_resync /\ feed[k].before.has_battery
          /\ BatteryError(feed[k]) = battery_threshold /\ ~feed[k].decisions.battery
          /\ SpeedError(feed[k]) > speed_threshold /\ feed[k].decisions.speed

OnlineBranchPositions ==
    {"upload", "fallback"} \cup (IF flush_ret = "loop" THEN DrainPositions ELSE {})

\* C21: no mid-sample preemption.  The branch a sample takes is the value of
\* is_online read once, in the step that takes up the sample: Offline goes to
\* the buffer store, Online to the drain or the live upload.  From then on
\* the main thread stays in that branch until the sample is done, whatever
\* is_online becomes meanwhile: the Online branch never turns to the Offline
\* store and never sets was_offline, the Offline branch makes no upload; and
\* a step that flips is_online leaves the sample in hand and the position of
\* the main thread as they are.
C21_NoMidSamplePreemption ==
    [][/\ sample_no' = sample_no + 1 =>
            /\ is_online' = is_online
            /\ (pc' = "store") = ~is_online
            /\ (pc' \in {"upload", "flush_prepare"}) = is_online
       /\ (pc \in OnlineBranchPositions /\ cur.n # 0) =>
            /\ pc' \in {"upload", "fallback", "read"} \cup DrainPositions
            /\ flush_ret' = flush_ret
            /\ (was_offline' => was_offline)
            /\ (pc' = "read" => cur.n \in live_called')
       /\ pc = "store" =>
            /\ pc' \in {"store", "read"}
            /\ received' = received /\ live_called' = live_called
            /\ attempts' = attempts /\ treated_sent' = treated_sent
            /\ (pc' = "read" => was_offline')
       /\ is_online' # is_online => (pc' = pc /\ cur' = cur)]_vars

\* C21 witness: the link went Offline after a sample had taken the Online
\* branch, and the sample's live upload has been called all the same.
C21_Witness ==
    /\ pc \in {"read", "fallback"} /\ ~is_online
    /\ iteration.toggles < toggles
    /\ sample_no \in live_called /\ ~was_offline

\* C22: shutdown.  When getline finds the source exhausted, main enters one
\* final drain pass if and only if is_online and was_offline hold at that
\* moment; otherwise it ends at once, with no upload and the buffer as it
\* was.  The final pass is entered from nowhere else, is not entered again
\* once begun, and main ends when it returns.
C22_FinalDrain ==
    [][/\ (pc = "read" /\ pc' # "read" /\ sample_no' = sample_no) =>
            /\ db' = db /\ received' = received /\ attempts' = attempts
            /\ IF is_online /\ was_offline
               THEN pc' = "flush_prepare" /\ flush_ret' = "final"
               ELSE pc' = "done" /\ flush_ret' # "final"
       /\ (flush_ret' = "final" /\ flush_ret # "final") =>
            (pc = "read" /\ pc' = "flush_prepare" /\ sample_no' = sample_no)
       /\ flush_ret = "final" =>
            /\ flush_ret' = "final"
            /\ pc' \in DrainPositions \cup {"done"}
            /\ (pc' = "flush_prepare" => pc = "flush_prepare")
       /\ pc = "done" => (pc' = "done" /\ db' = db /\ attempts' = attempts)]_vars

\* C22 witness: main has ended after a final drain pass that uploaded a
\* buffered row and took it out of the buffer.
C22_Witness ==
    /\ pc = "done" /\ exit_code = 0 /\ flush_ret = "final"
    /\ Len(attempts) >= 1 /\ removed # {}

\* In this run no line was read, no sample handed to the predictor, no
\* upload called and no row put in the buffer
NothingProcessed ==
    /\ lineno = 0 /\ line_count = 0 /\ sample_no = 0 /\ cur = NoSample
    /\ g_predictor.total_readings = 0
    /\ live_called = {} /\ attempts = <<>> /\ received = <<>> /\ treated_sent = {}
    /\ db = <<>> /\ db_seq = 0 /\ stored = {} /\ reported = {}

\* C24: fatal initialisation.  When initDatabase fails or no candidate path
\* of the log file opens, main returns a non-zero code, having read no line,
\* processed no sample, called no upload and stored no row; and main returns
\* a non-zero code in no other case.
C24_FatalInit ==
    /\ pc = "exit" => (exit_code > 0 /\ NothingProcessed)
    /\ exit_code > 0 => pc = "exit"
    /\ pc = "done" => exit_code = 0

\* C24 witness: the buffer was opened, the link was toggled, then no log
\* file could be opened and main has returned 1.
C24_Witness == pc = "exit" /\ exit_code = 1 /\ toggles > 0

\* Uploads of the pass whose turn of the loop is over (the last one is not
\* while the main thread is between the upload and the DELETE)
TurnsOver ==
    {k \in 1..Len(attempts) : ~(k = Len(attempts) /\ pc = "flush_delete")}

Handled == live_called \cup stored \cup reported

PredictorFields == {"speed", "power", "battery", "heading"}

\* The value of field f in sample s as shouldTransmitPacket is handed it, in
\* thousandths
ActualOf(s, f) ==
    CASE f = "speed" -> s.speed
      [] f = "power" -> s.power
      [] f = "battery" -> s.battery * Scale
      [] f = "heading" -> s.heading * Scale

PredictedOf(p, f) ==
    CASE f = "speed" -> p.predicted_speed
      [] f = "power" -> p.predicted_power
      [] f = "battery" -> p.predicted_battery
      [] f = "heading" -> p.predicted_heading

HasOf(p, f) ==
    CASE f = "speed" -> p.has_speed
      [] f = "power" -> p.has_power
      [] f = "battery" -> p.has_battery
      [] f = "heading" -> p.has_heading

\* Scenario S6 for field f over the calls i..j: call i is the last made
\* Online, with a sample carrying v, and leaves the predictor in steady state
\* at v; the calls between i and j, one at least, are made Offline; call j is
\* made Online with a sample carrying v again, and is no resync.
S6(i, j, f) ==
    /\ i + 1 < j
    /\ feed[i].online /\ feed[j].online
    /\ \A k \in i + 1..j - 1 : ~feed[k].online
    /\ HasOf(feed[i + 1].before, f)
    /\ PredictedOf(feed[i + 1].before, f) = ActualOf(feed[i].sample, f)
    /\ ActualOf(feed[j].sample, f) = ActualOf(feed[i].sample, f)
    /\ ~feed[j].decisions.is_resync

\* C26 as stated: in scenario S6, whatever the samples processed Offline
\* carry, call j finds the predictor holding the smoothed value it had after
\* the last Online sample, and its decision omits the field.
C26_RetainsLastOnlineValue ==
    \A i, j \in 1..Len(feed) : \A f \in PredictorFields :
        S6(i, j, f) =>
            /\ PredictedOf(feed[j].before, f) = PredictedOf(feed[i + 1].before, f)
            /\ ~feed[j].decisions[f]

\* C26 amended: in scenario S6 the predictor is not reset and goes on
\* smoothing: call j finds the field initialised, holding what
\* exponentialSmooth made of it sample by sample over the Offline calls; and
\* when the samples processed Offline also carry v for the field, that is
\* still v and the decision of call j omits the field.
C26_NotResetAcrossOutage ==
    \A i, j \in 1..Len(feed) : \A f \in PredictorFields :
        S6(i, j, f) =>
            /\ HasOf(feed[j].before, f)
            /\ \A k \in i + 1..j - 1 :
                  PredictedOf(feed[k + 1].before, f) =
                      exponentialSmooth(ActualOf(feed[k].sample, f),
                                        PredictedOf(feed[k].before, f))
            /\ (\A k \in i + 1..j - 1 :
                    ActualOf(feed[k].sample, f) = ActualOf(feed[i].sample, f))
               => /\ PredictedOf(feed[j].before, f) = ActualOf(feed[i].sample, f)
                  /\ ~feed[j].decisions[f]

\* C26 witness: a first sample Online, the same reading again while Offline,
\* and again after the link came back: the last decision omits all fields.
C26_Witness ==
    /\ Len(feed) = 3
    /\ feed[1].online /\ ~feed[2].online /\ feed[3].online
    /\ feed[1].sample.speed = 10000
    /\ feed[2].sample = feed[1].sample /\ feed[3].sample = feed[1].sample
    /\ \A f \in PredictorFields : S6(1, 3, f) /\ ~feed[3].decisions[f]

\* C27: a sample that takes the Offline branch causes no upload attempt and
\* one call of storeToBuffer, with the full record of the sample under the
\* sample's timestamp; was_offline is true afterwards whether the call
\* stored the row or failed.
C27_OfflineSample ==
    [][/\ (sample_no' = sample_no + 1 /\ ~is_online) =>
            (pc' = "store" /\ cur'.n \notin live_called /\ cur'.n \notin stored
             /\ cur'.n \notin reported)
       /\ (pc = "store" /\ pc' # "store") =>
            /\ pc' = "read" /\ was_offline' /\ line_count' = line_count + 1
            /\ received' = received /\ treated_sent' = treated_sent
            /\ live_called' = live_called /\ attempts' = attempts
            /\ cur.n \notin live_called
            /\ \/ /\ stored' = stored \cup {cur.n} /\ reported' = reported
                  /\ Len(db') = Len(db) + 1
                  /\ LET row == db'[Len(db')]
                     IN /\ row.n = cur.n
                        /\ row.timestamp = cur.sample.timestamp
                        /\ row.protobuf_data =
                               SerializeToString(CompleteRecord(cur.sample))
                        /\ IsFull(ParseFromArray(row.protobuf_data))
                        /\ CarriesTimeAndOdometer(row.protobuf_data, cur.sample)
               \/ /\ reported' = reported \cup {cur.n} /\ stored' = stored
                  /\ db' = db]_vars

\* C27 witness: the store of a sample processed Offline failed, nothing is
\* in the buffer, no upload was ever called, and was_offline is set.
C27_Witness ==
    /\ pc = "read" /\ was_offline /\ ~is_online
    /\ reported = {sample_no} /\ stored = {} /\ db = <<>>
    /\ live_called = {} /\ attempts = <<>>

\* C28: is_online starts true and was_offline false; is_online is flipped by
\* each toggle and by nothing else; and at the end of every iteration of the
\* loop (the main thread back at getline) was_offline is true if and only
\* if a sample has been processed and the last one processed took the
\* Offline branch, that is, went to the buffer without a live upload.
C28_WasOfflineMeaning ==
    /\ pc = "start" => (is_online /\ ~was_offline)
    /\ is_online = (toggles % 2 = 0)
    /\ pc \in {"start", "open"} => ~was_offline
    /\ pc = "read" =>
          (was_offline <=> (line_count > 0 /\ sample_no \notin live_called))

\* C28 witness: a sample processed Offline was followed by a sample processed
\* Online, with a drain, and a line that did not parse was read in the run:
\* was_offline is clear again.
C28_Witness ==
    /\ pc = "read" /\ ~was_offline /\ sample_no >= 2
    /\ (sample_no - 1) \in stored \ live_called
    /\ sample_no \in live_called /\ flushed_this_iter
    /\ lineno > sample_no

\* C29: the predictor advances on every parsed sample whatever the link
\* state.  shouldTransmitPacket has been called once for each sample taken
\* up, the samples that took the Offline branch included, and for nothing
\* else: total_readings is the number of samples taken up, it is ahead of
\* line_count by the sample in hand, and equals line_count whenever the main
\* thread is back at getline.
C29_PredictorAdvancesEverySample ==
    /\ g_predictor.total_readings = sample_no
    /\ g_predictor.total_readings = line_count + (IF cur.n # 0 THEN 1 ELSE 0)
    /\ pc \in {"read", "done"} => g_predictor.total_readings = line_count

\* C29 witness: two samples have been processed Offline and a line did not
\* parse; total_readings and line_count are both 2.
C29_Witness ==
    /\ pc = "read" /\ ~is_online /\ was_offline
    /\ line_count = 2 /\ g_predictor.total_readings = 2
    /\ live_called = {} /\ lineno = 3

\* g_predictor after call k of the feed
AfterCall(k) == IF k < Len(feed) THEN feed[k + 1].before ELSE g_predictor

AnyFlag(d) == d.speed \/ d.power \/ d.battery \/ d.heading

\* C30: after every call of shouldTransmitPacket total_readings =
\* transmitted_readings + skipped_readings; each call adds one to
\* total_readings and one to exactly one of the two others:
\* transmitted_readings when a field flag is set in the decision, however
\* many are, skipped_readings when none is.
C30_CounterBalance ==
    /\ g_predictor.total_readings =
          g_predictor.transmitted_readings + g_predictor.skipped_readings
    /\ g_predictor.total_readings = Len(feed)
    /\ \A k \in 1..Len(feed) :
          LET b == feed[k].before
              a == AfterCall(k)
              any == AnyFlag(feed[k].decisions)
          IN /\ a.total_readings = a.transmitted_readings + a.skipped_readings
             /\ a.total_readings = b.total_readings + 1
             /\ a.transmitted_readings =
                   b.transmitted_readings + (IF any THEN 1 ELSE 0)
             /\ a.skipped_readings = b.skipped_readings + (IF any THEN 0 ELSE 1)

\* C30 witness: three calls, one whose decision has all four flags, one with
\* the battery flag alone and one with none: two transmitted, one skipped.
C30_Witness ==
    /\ Len(feed) = 3
    /\ g_predictor.transmitted_readings = 2 /\ g_predictor.skipped_readings = 1
    /\ \E k \in 1..3 : AllFlags(feed[k].decisions)
    /\ \E k \in 1..3 :
          /\ feed[k].decisions.battery
          /\ ~(feed[k].decisions.speed \/ feed[k].decisions.power
                \/ feed[k].decisions.heading)
    /\ \E k \in 1..3 : ~AnyFlag(feed[k].decisions)

ThresholdOf(f) ==
    CASE f = "speed" -> speed_threshold
      [] f = "power" -> power_threshold
      [] f = "battery" -> battery_threshold
      [] f = "heading" -> heading_threshold

\* The flag of field f comes out set for the actual value against the
\* prediction held in p
FlagAgainst(p, actual, f) ==
    ~HasOf(p, f) \/ Abs(actual - PredictedOf(p, f)) > ThresholdOf(f)

\* C31: in every call of shouldTransmitPacket the flags are computed from
\* the predicted values held before the call (on a decision that is no
\* resync), and the predictions are updated afterwards: each of the four
\* fields becomes alpha * actual + (1 - alpha) * previous, previous being
\* the value held before the call (the actual value when the field was not
\* initialised), whether the field's flag is set or not and whether the
\* decision is a resync or not.
C31_DecideThenUpdate ==
    [][Len(feed') = Len(feed) + 1 =>
          LET e == feed'[Len(feed')]
          IN /\ e.before = g_predictor
             /\ \A f \in PredictorFields :
                   LET actual == ActualOf(e.sample, f)
                       previous == IF HasOf(g_predictor, f)
                                   THEN PredictedOf(g_predictor, f) ELSE actual
                   IN /\ ~e.decisions.is_resync =>
                            (e.decisions[f] = FlagAgainst(g_predictor, actual, f))
                      /\ PredictedOf(g_predictor', f) =
                            (alpha * actual + (Scale - alpha) * previous) \div Scale
                      /\ HasOf(g_predictor', f)]_vars

\* C31 witness: a first call that was a resync; a call whose power flag is
\* set against the prediction held before it and would not be against the
\* updated one; a call that left the speed flag unset and moved the
\* predicted speed all the same.
C31_Witness ==
    /\ Len(feed) = 3
    /\ feed[1].decisions.is_resync
    /\ PredictedOf(AfterCall(1), "speed") = ActualOf(feed[1].sample, "speed")
    /\ \E k \in 2..3 :
          /\ ~feed[k].decisions.is_resync /\ feed[k].decisions.power
          /\ ~FlagAgainst(AfterCall(k), ActualOf(feed[k].sample, "power"), "power")
    /\ \E k \in 2..3 :
          /\ ~feed[k].decisions.is_resync /\ ~feed[k].decisions.speed
          /\ PredictedOf(AfterCall(k), "speed") # PredictedOf(feed[k].before, "speed")

(***************************************************************************)
(* The predictor call together with the compressed record main builds      *)
(* from its decisions, over the samples of PredictorSpec.                  *)
(***************************************************************************)
\* g_predictor.shouldTransmitPacket(...), compressed_data built from the
\* decisions and serialized, and the value of is_online main reads
PredictorCallAndRecord ==
    /\ pc = "read"
    /\ Len(feed) < MaxFeed
    /\ \E s \in PredictorSamples, dt \in PredictorClockSteps :
         LET now == steady_clock + dt
             r == shouldTransmitPacket(g_predictor, s.speed, s.power,
                                        s.battery * Scale, s.heading * Scale, now)
         IN /\ steady_clock' = now
            /\ g_predictor' = r.predictor
            /\ feed' = Append(feed, [sample |-> s, now |-> now,
                                     before |-> g_predictor,
                                     decisions |-> r.decisions,
                                     online |-> is_online])
            /\ \E odometer \in OdometerVals :
                 LET parsed == [timestamp |-> source_ts, speed |-> s.speed,
                                power |-> s.power, battery |-> s.battery,
                                heading |-> s.heading, odometer |-> odometer]
                 IN cur' = [n |-> Len(feed) + 1, sample |-> parsed,
                            decisions |-> r.decisions,
                            serialized_compressed |->
                                SerializeToString(CompressedRecord(parsed, r.decisions))]
    /\ UNCHANGED <<pc, exit_code, run, is_online, was_offline, line_count, lineno,
                   source_ts, db, db_seq,
                   flush_ret, stmt_rows, stmt_pos, count, failed>>
    /\ UNCHANGED <<hist_vars, env_vars, twin_predictor, twin_decisions, toggle_vars>>

RecordNext ==
    \/ Startup
    \/ OpenSource
    \/ Toggle
    \/ PredictorCallAndRecord

RecordSpec == Init /\ [][RecordNext]_vars

\* C32: in the compressed record main builds for a sample, each of speed,
\* power, battery and heading is present if and only if its flag is set in
\* the sample's decision, a field that is present carries the sample's
\* value, and is_resync is the decision's is_resync.  Stated of the
\* serialized record as the codec reads it (fields 3 to 7), at the step that
\* builds it.
C32_PresenceFollowsFlags ==
    [][(cur' # cur /\ cur'.n # 0) =>
          LET bytes == cur'.serialized_compressed
              d == cur'.decisions
              s == cur'.sample
          IN /\ Parseable(bytes)
             /\ (FieldOf(bytes, 3) = 1) = d.is_resync
             /\ HasField(bytes, 4) = d.speed
             /\ HasField(bytes, 5) = d.power
             /\ HasField(bytes, 6) = d.battery
             /\ HasField(bytes, 7) = d.heading
             /\ d.speed => FieldOf(bytes, 4) = s.speed
             /\ d.power => FieldOf(bytes, 5) = s.power
             /\ d.battery => FieldOf(bytes, 6) = s.battery
             /\ d.heading => FieldOf(bytes, 7) = s.heading]_vars

\* C32 witness: the record in hand was built from a decision with the
\* battery flag alone, and carries the battery level and none of speed,
\* power and heading.
C32_Witness ==
    /\ cur.n # 0
    /\ cur.decisions.battery /\ ~cur.decisions.is_resync
    /\ ~(cur.decisions.speed \/ cur.decisions.power \/ cur.decisions.heading)
    /\ HasField(cur.serialized_compressed, 6)
    /\ ~HasField(cur.serialized_compressed, 4)
    /\ Len(cur.serialized_compressed) = 4

(***************************************************************************)
(* A buffer file left by an earlier process with a damaged row in it:      *)
(* initDatabase opens the file as it finds it (CREATE TABLE IF NOT         *)
(* EXISTS), and flushBuffer reads whatever rows are there.                 *)
(***************************************************************************)
\* A row whose blob is cut short: ParseFromArray fails on it
DamagedRow == [id |-> 1, timestamp |-> 0, protobuf_data |-> <<<<1, 0>>>>, n |-> 0]

DamagedInit ==
    /\ pc = "start"
    /\ exit_code = -1
    /\ run = 1
    /\ is_online = TRUE
    /\ was_offline = FALSE
    /\ line_count = 0
    /\ lineno = 0
    /\ source_ts = 1
    /\ steady_clock = 0
    /\ g_predictor = NewPredictor(0)
    /\ cur = NoSample
    /\ db = <<DamagedRow>>
    /\ db_seq = 1
    /\ flush_ret = "loop"
    /\ stmt_rows = <<>>
    /\ stmt_pos = 1
    /\ count = 0
    /\ failed = 0
    /\ sample_no = 0
    /\ received = <<>>
    /\ treated_sent = {}
    /\ stored = {}
    /\ reported = {}
    /\ attempts = <<>>
    /\ drained_since_store = TRUE
    /\ drain_failed_pending = FALSE
    /\ flushed_this_iter = FALSE
    /\ transport_phase = "failing"
    /\ clean_since = {}
    /\ removed = {}
    /\ survivors = {}
    /\ live_called = {}
    /\ iteration = NoIteration
    /\ pause_log = <<>>
    /\ feed = <<>>
    /\ twin_predictor = NewPredictor(0)
    /\ twin_decisions = <<>>
    /\ toggle_pc = "getline"
    /\ toggle_tmp = TRUE
    /\ reads = 0
    /\ toggles = 0
    /\ faults = 0

DamagedSpec == DamagedInit /\ [][Next]_vars

\* C33: during a drain pass a buffer entry whose payload fails to decode is
\* not uploaded and not removed, and the pass goes on to the next entry; no
\* step of the program removes such an entry, so it is still in the buffer
\* after every drain pass.
C33_MalformedEntrySkipped ==
    [][/\ db' # db =>
             \A i \in 1..Len(db) :
                ~Parseable(db[i].protobuf_data)
                   => \E j \in 1..Len(db') : db'[j] = db[i]
       /\ (/\ pc = "flush_step"
           /\ stmt_pos <= Len(stmt_rows)
           /\ ~Parseable(stmt_rows[stmt_pos].protobuf_data)
           /\ toggles' = toggles)
             => /\ pc' = "flush_step"
                /\ stmt_pos' = stmt_pos + 1
                /\ stmt_rows' = stmt_rows
                /\ db' = db
                /\ attempts' = attempts
                /\ received' = received
                /\ treated_sent' = treated_sent
                /\ count' = count
                /\ failed' = failed]_vars

\* C33 witness: a drain pass has ended in which the damaged entry came
\* first and a sample's entry was uploaded after it, and the damaged entry
\* is still in the buffer.
C33_Witness ==
    /\ flushed_this_iter
    /\ stmt_pos > Len(stmt_rows)
    /\ Len(stmt_rows) >= 2
    /\ ~Parseable(stmt_rows[1].protobuf_data)
    /\ Len(attempts) >= 1
    /\ \E i \in 1..Len(db) : db[i] = stmt_rows[1]

\* C34: a source line that fails to parse is skipped with no effect on the
\* agent's state: the predictor (values, flags, counters), the buffer,
\* was_offline and line_count are unchanged, no upload and no store is
\* attempted, and the loop goes on to the next line.  The step that
\* consumes a line without taking up a sample is the parse error.
C34_ParseErrorFrame ==
    [][(lineno' = lineno + 1 /\ sample_no' = sample_no) =>
          /\ g_predictor' = g_predictor
          /\ db' = db /\ db_seq' = db_seq
          /\ was_offline' = was_offline
          /\ line_count' = line_count
          /\ received' = received /\ treated_sent' = treated_sent
          /\ live_called' = live_called /\ attempts' = attempts
          /\ stored' = stored /\ reported' = reported
          /\ cur' = cur
          /\ pc = "read" /\ pc' = "read"
          /\ exit_code' = exit_code]_vars

\* C34 witness: a line has failed to parse and a sample was taken up from a
\* later line, with the buffer non-empty, was_offline set and the
\* predictor initialised.
C34_Witness ==
    /\ lineno > sample_no
    /\ sample_no >= 2 /\ cur.n = sample_no
    /\ Len(db) >= 1 /\ was_offline
    /\ g_predictor.total_readings = sample_no
    /\ line_count < sample_no

\* C35: the link-toggle thread modifies only is_online: a toggle event
\* leaves the buffer, was_offline, the predictor, the statistics and main's
\* position unchanged; and the main thread never writes is_online: only a
\* toggle event changes it.
C35_ToggleFrame ==
    [][/\ toggles' # toggles =>
            /\ is_online' = ~is_online
            /\ UNCHANGED <<pc, exit_code, was_offline, line_count, lineno,
                           g_predictor, cur, db, db_seq,
                           flush_ret, stmt_rows, stmt_pos, count, failed>>
            /\ UNCHANGED <<received, treated_sent, stored, attempts>>
       /\ toggles' = toggles => is_online' = is_online]_vars

\* C35 witness: after a sample was stored Offline the link was toggled back
\* Online, and the buffer, was_offline and the predictor are as the store
\* left them.
C35_Witness ==
    /\ toggles = 2 /\ is_online
    /\ pc = "read"
    /\ was_offline /\ Len(db) >= 1
    /\ g_predictor.total_readings = sample_no /\ sample_no >= 1
    /\ attempts = <<>> /\ received = <<>>

\* The samples the endpoint took from a live upload
DeliveredLive == {received[i].n : i \in {j \in 1..Len(received) : received[j].via = "live"}}

\* C36: a sample's record is never both delivered live and stored in the
\* buffer.  storeToBuffer is called in the Online branch only after the live
\* upload of that sample returned failure; a sample taking the Offline
\* branch is not uploaded; so when a sample's record is appended to the
\* buffer (or the append fails) no upload of it has succeeded, and after a
\* successful live upload the iteration ends without a store.
C36_LiveOrStored ==
    [][/\ \A n \in (stored' \cup reported') \ (stored \cup reported) :
             /\ n = cur.n
             /\ n \notin treated_sent /\ n \notin DeliveredLive
             /\ pc = "store" => n \notin live_called
             /\ pc = "fallback" => n \in live_called
       /\ (pc' = "fallback" /\ pc # "fallback") =>
             /\ pc = "upload"
             /\ cur.n \notin treated_sent'
       /\ (pc = "upload" /\ cur.n \in treated_sent') =>
             /\ pc' = "read"
             /\ stored' = stored /\ db' = db
             /\ cur.n \notin stored]_vars

\* C36 witness: one sample went out by a successful live upload and is not
\* in the buffer, another was buffered after its live upload failed and was
\* not delivered live.
C36_Witness ==
    /\ \E n \in DeliveredLive : n \notin stored /\ n \notin Ns(db)
    /\ \E n \in stored : n \in live_called /\ n \notin DeliveredLive /\ n \in Ns(db)

(***************************************************************************)
(* Two outages in one run: the program with the toggle thread allowed two  *)
(* more events than in Spec, so that a second drain pass can follow the    *)
(* first.                                                                  *)
(***************************************************************************)
ToggleTwiceMore == ToggleUpTo(MaxToggles + 2)

TwoOutagesNext ==
    \/ Startup
    \/ StartupFails
    \/ OpenSource
    \/ OpenSourceFails
    \/ ToggleTwiceMore
    \/ ReadSample
    \/ ParseError
    \/ LiveUpload
    \/ FallbackStore
    \/ OfflineStore
    \/ EndOfSource
    \/ FlushPrepare
    \/ FlushPrepareFails
    \/ FlushRow
    \/ FlushDelete
    \/ FlushReturn

TwoOutagesSpec == Init /\ [][TwoOutagesNext]_vars

\* The samples the endpoint took from a drain upload
DeliveredDrain == {received[i].n : i \in {j \in 1..Len(received) : received[j].via = "drain"}}

\* C37: no duplicate delivery from the buffer: an entry whose upload
\* succeeded in a drain pass is never uploaded again, in the same pass or in
\* a later one.  Every drain upload is of an entry the endpoint has not
\* taken from a drain upload before.
C37_NoDuplicateDelivery ==
    [][Len(attempts') = Len(attempts) + 1 =>
          attempts'[Len(attempts')].n \notin DeliveredDrain]_vars

(***************************************************************************)
(* The toggle thread in two steps.  is_online is a std::atomic<bool>, and  *)
(* "is_online = !is_online" is a load followed by a store, each atomic on  *)
(* its own: steps of main can come between the two.                        *)
(***************************************************************************)
\* A toggle thread that negates the value it loaded at its first event
ToggleLoadCached ==
    /\ pc \notin {"start", "exit", "done"}
    /\ toggle_pc = "getline"
    /\ toggles < MaxToggles
    /\ toggle_pc' = "store"
    /\ UNCHANGED toggle_tmp
    /\ UNCHANGED <<prog_vars, hist_vars, env_vars, pred_vars>>

\* std::getline returns and the thread loads is_online
ToggleLoad ==
    /\ pc \notin {"start", "exit", "done"}
    /\ toggle_pc = "getline"
    /\ toggles < MaxToggles
    /\ toggle_tmp' = is_online
    /\ toggle_pc' = "store"
    /\ UNCHANGED <<prog_vars, hist_vars, env_vars, pred_vars>>

\* the thread stores the negation of what it loaded: the toggle event
ToggleStore ==
    /\ toggle_pc = "store"
    /\ is_online' = ~toggle_tmp
    /\ toggles' = toggles + 1
    /\ toggle_pc' = "getline"
    /\ UNCHANGED <<pc, exit_code, run, was_offline, line_count, lineno,
                   source_ts, steady_clock, g_predictor, cur, db, db_seq,
                   flush_ret, stmt_rows, stmt_pos, count, failed>>
    /\ UNCHANGED <<hist_vars, reads, faults, pred_vars, toggle_tmp>>

SplitToggleNext ==
    \/ Startup
    \/ StartupFails
    \/ OpenSource
    \/ OpenSourceFails
    \/ ToggleLoad
    \/ ToggleStore
    \/ ReadSample
    \/ ParseError
    \/ LiveUpload
    \/ FallbackStore
    \/ OfflineStore
    \/ EndOfSource
    \/ FlushPrepare
    \/ FlushPrepareFails
    \/ FlushRow
    \/ FlushDelete
    \/ FlushReturn

SplitToggleSpec == Init /\ [][SplitToggleNext]_vars

\* C38: no toggle event is lost: with the one toggle thread doing the
\* load-then-store is_online = !is_online and main only reading, after n
\* toggle events is_online is true if and only if n is even, whatever steps
\* of main come between the load and the store; and between its load and
\* its store the value the thread holds is still the value of is_online.
C38_NoToggleLost ==
    /\ is_online = (toggles % 2 = 0)
    /\ toggle_pc = "store" => toggle_tmp = is_online

\* C38 witness: the second toggle event is between its load and its store
\* while main, having read is_online as Offline for the sample in hand, is
\* about to store it.
C38_Witness ==
    /\ toggle_pc = "store" /\ toggles = 1
    /\ ~is_online /\ ~toggle_tmp
    /\ pc = "store" /\ cur.n = sample_no

\* C39: predictor state and decisions do not depend on link state or on
\* transport and store outcomes.  Stated step by step: the step that takes
\* up a sample yields the decisions and the predictor that
\* shouldTransmitPacket computes from the predictor before the step, the
\* sample's four values and the clock reading, and from nothing else; and
\* every other step (toggle, upload, store, drain) leaves the predictor as
\* it is.  Two runs over the same samples at the same clock readings start
\* from the same predictor, so by induction they hold the same predictor
\* and return the same decisions after every sample, whatever their toggles
\* and their upload and store results.
C39_LinkIndependentDecisions ==
    [][/\ sample_no' = sample_no + 1 =>
            LET s == cur'.sample
                r == shouldTransmitPacket(g_predictor, s.speed, s.power,
                                           s.battery * Scale, s.heading * Scale,
                                           steady_clock')
            IN /\ cur'.n = sample_no'
               /\ cur'.decisions = r.decisions
               /\ g_predictor' = r.predictor
       /\ sample_no' = sample_no =>
            /\ g_predictor' = g_predictor
            /\ cur'.n # 0 => (cur' = cur)]_vars

\* C39 witness: the third sample is in hand after two toggles and a failed
\* call, taken up with the link back Online after an outage, and its
\* decision is the predictor's (no resync, speed omitted).
C39_Witness ==
    /\ sample_no = 3 /\ cur.n = 3
    /\ toggles = 2 /\ faults = 1
    /\ iteration.due
    /\ ~cur.decisions.is_resync /\ ~cur.decisions.speed
    /\ g_predictor.total_readings = 3

====
